---- MODULE Spec2Model ----
(***************************************************************************)
(* A model of the VersionManager core.                                     *)
(*                                                                         *)
(*   Part I   core/job_queue.py: the JobQueue worker pool, its control     *)
(*            operations (called from the single UI thread) and the job    *)
(*            handlers registered in ui/main_window.py.  Worker threads    *)
(*            and the UI thread share the Job objects, _running_jobs, the  *)
(*            queue and the two events without any lock, so every access   *)
(*            to shared state is a step of its own.                        *)
(*   Part II  database/db_manager.py and core/file_service.py: tracked     *)
(*            files, their versions and backup artifacts.                  *)
(***************************************************************************)
EXTENDS Integers, Sequences, FiniteSets, TLC

\* ------------------------------------------------------------------ bounds
\* Number of Job objects the UI creates and enqueues.
MaxJobs == 2
\* Largest max_workers argument given to JobQueue(...) and set_max_workers.
MaxWorkers == 2
\* Number of threads ever started (the _workers list is never pruned).
MaxThreads == 2
\* Number of tracked files a VERIFY_ALL handler iterates over.
MaxVerifyFiles == 1
\* Number of TrackedFile rows ever created (their uuid4 ids are 1..MaxFiles).
MaxFiles == 2
\* Number of versions created for one file.
MaxVersions == 3
\* Number of distinct contents a file on disk can have.
MaxContent == 2

\* The most rows table events gets.
MaxEvents == 2

\* The most files a scanned directory tree holds.
MaxCandidates == 3

\* The callers that may be inside create_new_version at the same time.
MaxCallers == 2

\* ------------------------------------------------------------- job_queue.py
JobType == {"verify_all", "pin_copy", "restore", "relink_scan"}

JobStatus == {"queued", "running", "paused", "completed", "failed", "canceled"}

\* The job types the UI enqueues in this model: the batch handler and one of
\* the three single-step handlers (pin_copy, restore and relink_scan have the
\* same control flow).
EnqueuedTypes == {"verify_all", "pin_copy"}

\* The sentinel None in the queue.
None == 0

Terminal == {"completed", "failed", "canceled"}

VARIABLES
    jobs,          \* the Job objects created so far: Seq of [job_type, status, progress, error]
    queue,         \* JobQueue._queue: Seq of job ids and None
    handlers,      \* JobQueue._handlers: the job types with a handler
    stop_event,    \* JobQueue._stop_event
    pause_event,   \* JobQueue._pause_event
    running_jobs,  \* JobQueue._running_jobs: job ids in insertion order
    workers,       \* JobQueue._workers: Seq of [pc, job, left, total, how]
    max_workers,   \* JobQueue._max_workers
    ui,            \* the UI thread inside a JobQueue call: [pc, job, n, seen, size, list]
    obs            \* what observers and the analysis record: see ObsInit

qvars == <<jobs, queue, handlers, stop_event, pause_event, running_jobs,
           workers, max_workers, ui, obs>>

VARIABLES
    files,         \* table files: set of [id, display_name, file_path,
                   \* file_size, modified_time, file_hash, status]
    versions,      \* table versions, in insertion order: Seq of [file_id,
                   \* version_number, file_size, modified_time, file_hash,
                   \* is_pinned, pinned_path]
    disk,          \* the live files: path -> content, Absent if there is no file
    backups,       \* the backup area: <<file id, artifact name>> -> content
    uuids,         \* the number of file ids uuid4 has produced
    issued,        \* for the analysis: the <<file id, version number>> pairs
                   \* create_version has inserted, in order
    ret,           \* for the analysis: the last FileService call and what it
                   \* returned or raised, [op, val]
    events,        \* table events, in insertion order: Seq of [file_id, event_type]
    tag_links,     \* table tag_links: set of [tag_id, file_id]
    tags,          \* table tags: the set of tag names (a tag's id stands for
                   \* its row; names are unique)
    pins,          \* the pin storage: <<file id, artifact name>> -> content
    pin_dirs,      \* the file ids that have a directory in the pin storage
    args,          \* for the analysis of the functions that read no store:
                   \* the arguments of the call, chosen at the start
    schema,        \* the database schema: table name -> set of column names
                   \* ({} for a table that does not exist), and the indexes
    calls          \* the create_version calls in progress: caller -> the
                   \* file and the version number the call has read

\* The store variables that registering and versioning leave alone.
more_vars == <<events, tag_links, tags, pins, pin_dirs, args, schema, calls>>

store_vars == <<files, versions, disk, backups, uuids, issued, ret, more_vars>>

vars == <<qvars, store_vars>>

Max(a, b) == IF a >= b THEN a ELSE b

JobIds == 1..Len(jobs)

WorkerIds == 1..Len(workers)

\* dataclass Job: status QUEUED, progress 0, error None.
Job(t) == [job_type |-> t, status |-> "queued", progress |-> 0, error |-> "None"]

\* A thread that has just been started: at the top of _run's while loop.
\* `how` is how the handler this worker called has ended: "none" (no handler
\* called, or not ended), "ok", "failed" (it marked the job FAILED and
\* returned), "raised", "gate" (its checkpoint returned False).
NewWorker == [pc |-> "loop", job |-> None, left |-> 0, total |-> 0, how |-> "none"]

UiIdle == [pc |-> "idle", job |-> None, n |-> 0, seen |-> {}, size |-> 0, list |-> <<>>]

\* Counters kept for the analysis, none of them read by the program:
\*   calls[j]      the number of handler invocations for job j
\*   done[j]       the number of job_completed emits for job j
\*   dequeued      the job ids in the order workers took them from the queue
\*   ended         the jobs that have had a terminal status
\*   gate          the jobs whose handler's checkpoint has returned False
\*   paused        a pause_current call that found running jobs has returned
\*                 and neither resume_current nor cancel_current was called since
\*   last          the last of pause_current, resume_current and cancel_current
\*                 that was called ("none" before the first call)
ObsInit == [calls |-> <<>>, done |-> <<>>, dequeued |-> <<>>, ended |-> {},
            gate |-> {}, paused |-> FALSE, last |-> "none"]

Ended(j) == obs' = [obs EXCEPT !.ended = @ \cup {j}]

SetStatus(j, s) == jobs' = [jobs EXCEPT ![j].status = s]

SetWorker(w, r) == workers' = [workers EXCEPT ![w] = r]

SetObs(f, j, v) == obs' = [obs EXCEPT ![f] = [@ EXCEPT ![j] = v]]

\* JobQueue.__init__(max_workers), lines 59-68: no handler, nothing queued,
\* _start_workers(max(1, max_workers)).
JobQueueInit(arg) ==
    /\ jobs = <<>>
    /\ queue = <<>>
    /\ handlers = {}
    /\ stop_event = FALSE
    /\ pause_event = FALSE
    /\ running_jobs = <<>>
    /\ max_workers = Max(1, arg)
    /\ workers = [w \in 1..Max(1, arg) |-> NewWorker]
    /\ ui = UiIdle
    /\ obs = ObsInit

\* --------------------------------------------------- JobQueue._run (a worker)
\* A worker's step is one access to state it shares with the UI thread or with
\* another worker (the queue, _running_jobs, a job's status, the two events);
\* what a thread does on its own in between (the handler lookup in _handlers,
\* which is filled during set-up; the work of a handler on the store and the
\* disk; job.progress and job.error, which only the job's worker writes)
\* belongs to the step before it.
AtPc(w, p) == w \in WorkerIds /\ workers[w].pc = p

Goto(w, p) == SetWorker(w, [workers[w] EXCEPT !.pc = p])

\* The thread leaves _run: `why` is "sentinel" (line 136) or "stop" (line 129).
Exit(w, why) ==
    /\ SetWorker(w, [NewWorker EXCEPT !.pc = "exited", !.how = why])
    /\ obs' = obs

\* line 129, a thread's first test: while not self._stop_event.is_set()
run_loop(w) ==
    /\ AtPc(w, "loop")
    /\ IF stop_event THEN Exit(w, "stop") ELSE Goto(w, "get") /\ obs' = obs
    /\ UNCHANGED <<store_vars, jobs, queue, handlers, stop_event, pause_event, running_jobs,
                   max_workers, ui>>

\* A faulty get that leaves the job it returns at the head of the queue.
run_get_peek(w) ==
    /\ AtPc(w, "get")
    /\ queue # <<>>
    /\ Head(queue) # None
    /\ SetWorker(w, [workers[w] EXCEPT !.pc = "reg", !.job = Head(queue)])
    /\ obs' = [obs EXCEPT !.dequeued = Append(@, Head(queue))]
    /\ UNCHANGED <<store_vars, jobs, queue, handlers, stop_event, pause_event,
                   running_jobs, max_workers, ui>>

\* lines 130-136: job = self._queue.get(timeout=0.2); None: break.  On Empty
\* (the queue stayed empty for 0.2 s) the loop test of line 129 is made again
\* and the worker is back in get, or has left the loop.
run_get(w) ==
    /\ AtPc(w, "get")
    /\ IF queue = <<>>
          THEN /\ queue' = queue
               /\ IF stop_event THEN Exit(w, "stop") ELSE UNCHANGED <<workers, obs>>
          ELSE /\ queue' = Tail(queue)
               /\ IF Head(queue) = None
                     THEN Exit(w, "sentinel")
                     ELSE /\ SetWorker(w, [workers[w] EXCEPT !.pc = "reg",
                                                             !.job = Head(queue)])
                          /\ obs' = [obs EXCEPT !.dequeued = Append(@, Head(queue))]
    /\ UNCHANGED <<store_vars, jobs, handlers, stop_event, pause_event, running_jobs,
                   max_workers, ui>>

\* dict store: an existing key keeps its place, a new key goes last.
DictPut(d, k) == IF \E i \in 1..Len(d) : d[i] = k THEN d ELSE Append(d, k)

\* dict.pop(k, None)
DictPop(d, k) == SelectSeq(d, LAMBDA x : x # k)

\* line 138: self._running_jobs[job.id] = job
run_reg(w) ==
    /\ AtPc(w, "reg")
    /\ running_jobs' = DictPut(running_jobs, workers[w].job)
    /\ Goto(w, "running")
    /\ UNCHANGED <<store_vars, jobs, queue, handlers, stop_event, pause_event, max_workers,
                   ui, obs>>

\* handle_verify_all up to its first shared access, lines 104-110:
\* get_all_files() raises, or returns n files; with none the handler returns.
VerifyAllStart(w) ==
    \/ SetWorker(w, [workers[w] EXCEPT !.pc = "exc", !.how = "raised"])
    \/ \E n \in 0..MaxVerifyFiles :
          IF n = 0
             THEN SetWorker(w, [workers[w] EXCEPT !.pc = "ret", !.how = "ok"])
             ELSE SetWorker(w, [workers[w] EXCEPT !.pc = "h_chk",
                                                  !.left = n, !.total = n])

\* handle_pin_copy up to its first shared access, lines 144-156 (handle_restore
\* 170-182 and handle_relink_scan 203-216 alike): the lookup raises, or finds
\* nothing (the handler is about to mark the job FAILED), or succeeds (progress
\* is set and emitted, the checkpoint is next).
SingleStart(w) ==
    \/ SetWorker(w, [workers[w] EXCEPT !.pc = "exc", !.how = "raised"])
    \/ SetWorker(w, [workers[w] EXCEPT !.pc = "h_fail"])
    \/ SetWorker(w, [workers[w] EXCEPT !.pc = "h_chk", !.left = 1, !.total = 1])

\* The progress a handler sets before its first checkpoint (line 153).
StartProgress(w) == IF workers'[w].pc = "h_chk" /\ workers'[w].total = 1
                       /\ jobs[workers[w].job].job_type # "verify_all"
                    THEN 30 ELSE 0

\* lines 139-144 and 153: job.status = RUNNING; job.progress = 0; emit; the
\* handler is looked up and, if there is one, called.
run_running(w) ==
    /\ AtPc(w, "running")
    /\ LET j == workers[w].job IN
       /\ IF jobs[j].job_type \notin handlers
             THEN /\ Goto(w, "nh_fail")
                  /\ obs' = obs
             ELSE /\ IF jobs[j].job_type = "verify_all"
                        THEN VerifyAllStart(w) ELSE SingleStart(w)
                  /\ SetObs("calls", j, obs.calls[j] + 1)
       /\ jobs' = [jobs EXCEPT ![j].status = "running",
                               ![j].progress = StartProgress(w)]
    /\ UNCHANGED <<store_vars, queue, handlers, stop_event, pause_event, running_jobs,
                   max_workers, ui>>

\* lines 145-146: job.status = FAILED; job.error = "No handler for job type"
run_nh_fail(w) ==
    /\ AtPc(w, "nh_fail")
    /\ jobs' = [jobs EXCEPT ![workers[w].job].status = "failed",
                            ![workers[w].job].error = "No handler for job type"]
    /\ Goto(w, "emit")
    /\ Ended(workers[w].job)
    /\ UNCHANGED <<store_vars, queue, handlers, stop_event, pause_event, running_jobs,
                   max_workers, ui>>

\* A handler gives up by itself, lines 149-151 (175-177, 209-211), or after
\* catching the exception of its work, lines 134-137 (162-165, 187-190, 194-197,
\* 228-231): job.status = FAILED; job.error = ...; return
handler_fail(w) ==
    /\ AtPc(w, "h_fail")
    /\ jobs' = [jobs EXCEPT ![workers[w].job].status = "failed",
                            ![workers[w].job].error = "handler error"]
    /\ SetWorker(w, [workers[w] EXCEPT !.pc = "ret", !.left = 0, !.total = 0,
                                       !.how = "failed"])
    /\ Ended(workers[w].job)
    /\ UNCHANGED <<store_vars, queue, handlers, stop_event, pause_event, running_jobs,
                   max_workers, ui>>

\* A faulty checkpoint that does not look at the job's status.
wait_if_paused(w) ==
    /\ AtPc(w, "h_chk")
    /\ IF pause_event THEN UNCHANGED workers ELSE Goto(w, "h_work")
    /\ UNCHANGED <<store_vars, jobs, queue, handlers, stop_event, pause_event, running_jobs,
                   max_workers, ui, obs>>

\* wait_if_paused_or_canceled, lines 167-173, one pass of its loop: if
\* job.status == CANCELED return False, on which every handler returns at once
\* (lines 110-111, 156-157, 182-183, 216-217); if the pause event is set, wait
\* 0.2 s and go round again; otherwise return True.
wait_if_paused_or_canceled(w) ==
    /\ AtPc(w, "h_chk")
    /\ IF jobs[workers[w].job].status = "canceled"
          THEN /\ SetWorker(w, [workers[w] EXCEPT !.pc = "ret", !.left = 0,
                                                  !.total = 0, !.how = "gate"])
               /\ obs' = [obs EXCEPT !.gate = @ \cup {workers[w].job}]
          ELSE /\ IF pause_event THEN UNCHANGED workers ELSE Goto(w, "h_work")
               /\ obs' = obs
    /\ UNCHANGED <<store_vars, jobs, queue, handlers, stop_event, pause_event, running_jobs,
                   max_workers, ui>>

\* int((idx / total) * 100), line 139
Percent(idx, total) == (idx * 100) \div total

\* The work between two checkpoints (lines 112-140, 159-168, 185-200, 219-234).
\* It succeeds: progress is updated and emitted, and the handler goes on to its
\* next checkpoint or, after the last item, returns.  Or its exception is
\* caught by the handler, which is about to mark the job FAILED.
handler_work(w) ==
    /\ AtPc(w, "h_work")
    /\ LET j == workers[w].job
           idx == workers[w].total - workers[w].left + 1
       IN
       \/ /\ jobs' = [jobs EXCEPT ![j].progress = Percent(idx, workers[w].total)]
          /\ IF workers[w].left = 1
                THEN SetWorker(w, [workers[w] EXCEPT !.pc = "ret", !.left = 0,
                                                     !.total = 0, !.how = "ok"])
                ELSE SetWorker(w, [workers[w] EXCEPT !.pc = "h_chk", !.left = @ - 1])
       \/ /\ Goto(w, "h_fail")
          /\ jobs' = jobs
    /\ UNCHANGED <<store_vars, queue, handlers, stop_event, pause_event, running_jobs,
                   max_workers, ui, obs>>

\* A faulty line 154 that does not look at the status.
run_ret_unchecked(w) ==
    /\ AtPc(w, "ret")
    /\ Goto(w, "complete")
    /\ UNCHANGED <<store_vars, jobs, queue, handlers, stop_event, pause_event,
                   running_jobs, max_workers, ui, obs>>

\* line 154: if job.status not in {CANCELED, FAILED}
run_ret(w) ==
    /\ AtPc(w, "ret")
    /\ IF jobs[workers[w].job].status \notin {"canceled", "failed"}
          THEN Goto(w, "complete")
          ELSE Goto(w, "emit")
    /\ UNCHANGED <<store_vars, jobs, queue, handlers, stop_event, pause_event, running_jobs,
                   max_workers, ui, obs>>

\* Faulty lines 155-156 that leave job.progress as the handler left it.
run_complete_keeps_progress(w) ==
    /\ AtPc(w, "complete")
    /\ jobs' = [jobs EXCEPT ![workers[w].job].status = "completed"]
    /\ Goto(w, "emit")
    /\ Ended(workers[w].job)
    /\ UNCHANGED <<store_vars, queue, handlers, stop_event, pause_event,
                   running_jobs, max_workers, ui>>

\* lines 155-156: job.status = COMPLETED; job.progress = 100
run_complete(w) ==
    /\ AtPc(w, "complete")
    /\ jobs' = [jobs EXCEPT ![workers[w].job].status = "completed",
                            ![workers[w].job].progress = 100]
    /\ Goto(w, "emit")
    /\ Ended(workers[w].job)
    /\ UNCHANGED <<store_vars, queue, handlers, stop_event, pause_event, running_jobs,
                   max_workers, ui>>

\* lines 157-159: except Exception as exc: job.status = FAILED; job.error = str(exc)
run_except(w) ==
    /\ AtPc(w, "exc")
    /\ jobs' = [jobs EXCEPT ![workers[w].job].status = "failed",
                            ![workers[w].job].error = "str(exc)"]
    /\ Goto(w, "emit")
    /\ Ended(workers[w].job)
    /\ UNCHANGED <<store_vars, queue, handlers, stop_event, pause_event, running_jobs,
                   max_workers, ui>>

\* lines 147 and 161: self.job_completed.emit(job)
run_emit(w) ==
    /\ AtPc(w, "emit")
    /\ LET j == workers[w].job IN
       SetObs("done", j, obs.done[j] + 1)
    /\ Goto(w, "pop")
    /\ UNCHANGED <<store_vars, jobs, queue, handlers, stop_event, pause_event, running_jobs,
                   max_workers, ui>>

\* lines 148-149 and 162: self._running_jobs.pop(job.id, None), and the loop
\* test of line 129 again
run_pop(w) ==
    /\ AtPc(w, "pop")
    /\ running_jobs' = DictPop(running_jobs, workers[w].job)
    /\ IF stop_event THEN Exit(w, "stop")
                     ELSE SetWorker(w, [NewWorker EXCEPT !.pc = "get"]) /\ obs' = obs
    /\ UNCHANGED <<store_vars, jobs, queue, handlers, stop_event, pause_event, max_workers, ui>>

\* One step of worker thread w when every job type has its handler.
HandledWorker(w) ==
    \/ run_loop(w) \/ run_get(w) \/ run_reg(w) \/ run_running(w)
    \/ handler_fail(w) \/ wait_if_paused_or_canceled(w) \/ handler_work(w)
    \/ run_ret(w) \/ run_complete(w) \/ run_except(w) \/ run_emit(w) \/ run_pop(w)

\* One step of worker thread w.
Worker(w) == HandledWorker(w) \/ run_nh_fail(w)

\* ------------------------------------- JobQueue's operations (the UI thread)
UiAt(p) == ui.pc = p

\* register_handler, lines 70-72.  The handlers are registered during set-up
\* (MainWindow.__init__, main_window.py 236-239), before the first enqueue.
register_handler(t) ==
    /\ UiAt("idle")
    /\ jobs = <<>>
    /\ handlers' = handlers \cup {t}
    /\ UNCHANGED <<store_vars, jobs, queue, stop_event, pause_event, running_jobs, workers,
                   max_workers, ui, obs>>

\* The caller builds a Job (main_window.py 801, 865, 1040, 1133) and enqueue
\* puts it on the queue: line 75.
enqueue_put(t) ==
    /\ UiAt("idle")
    /\ Len(jobs) < MaxJobs
    /\ jobs' = Append(jobs, Job(t))
    /\ queue' = Append(queue, Len(jobs) + 1)
    /\ ui' = [UiIdle EXCEPT !.pc = "enq_emit", !.job = Len(jobs) + 1]
    /\ obs' = [obs EXCEPT !.calls = Append(@, 0), !.done = Append(@, 0)]
    /\ UNCHANGED <<store_vars, handlers, stop_event, pause_event, running_jobs, workers,
                   max_workers>>

\* enqueue, line 76: self.job_updated.emit(job).  The slot runs in the
\* emitting (UI) thread and reads the job's status in this step.
enqueue_emit ==
    /\ UiAt("enq_emit")
    /\ ui' = UiIdle
    /\ UNCHANGED <<store_vars, jobs, queue, handlers, stop_event, pause_event, running_jobs,
                   workers, max_workers, obs>>

\* stop, line 80 (called once, from MainWindow.closeEvent)
stop_set ==
    /\ UiAt("idle")
    /\ stop_event' = TRUE
    /\ ui' = [UiIdle EXCEPT !.pc = "stop_put", !.n = Len(workers)]
    /\ UNCHANGED <<store_vars, jobs, queue, handlers, pause_event, running_jobs, workers,
                   max_workers, obs>>

\* stop, lines 81-82: one None per entry of _workers
stop_put ==
    /\ UiAt("stop_put")
    /\ queue' = Append(queue, None)
    /\ ui' = IF ui.n = 1 THEN [UiIdle EXCEPT !.pc = "closed"]
                         ELSE [ui EXCEPT !.n = @ - 1]
    /\ UNCHANGED <<store_vars, jobs, handlers, stop_event, pause_event, running_jobs,
                   workers, max_workers, obs>>


\* The iterator over self._running_jobs.values(): it remembers the dict's size.
IterStart(p) == [UiIdle EXCEPT !.pc = p, !.size = Len(running_jobs)]

\* The entries the iterator has not passed yet.
IterRest == SelectSeq(running_jobs, LAMBDA j : j \notin ui.seen)

\* The dict changed size under the iterator: RuntimeError, the call ends.
IterBroken == Len(running_jobs) # ui.size

\* pause_current, lines 86-88: if self._running_jobs: self._pause_event.set()
\* and the loop starts
pause_set ==
    /\ UiAt("idle")
    /\ IF running_jobs # <<>>
          THEN pause_event' = TRUE /\ ui' = IterStart("p_iter")
          ELSE UNCHANGED <<pause_event, ui>>
    /\ obs' = [obs EXCEPT !.last = "pause"]
    /\ UNCHANGED <<store_vars, jobs, queue, handlers, stop_event, running_jobs, workers,
                   max_workers>>

\* One pass of a for loop over the dict: the next job, and the test of its
\* status against `want`; `write` is the pc of the assignment that follows.
IterStep(want, write) ==
    ui' = IF IterBroken \/ IterRest = <<>>
             THEN UiIdle
             ELSE [ui EXCEPT !.seen = @ \cup {Head(IterRest)},
                             !.job = Head(IterRest),
                             !.pc = IF jobs[Head(IterRest)].status = want
                                       THEN write ELSE @]

\* pause_current, lines 88-89: for job in ...: if job.status == RUNNING
pause_iter ==
    /\ UiAt("p_iter")
    /\ IterStep("running", "p_write")
    /\ obs' = [obs EXCEPT !.paused = @ \/ ui'.pc = "idle"]
    /\ UNCHANGED <<store_vars, jobs, queue, handlers, stop_event, pause_event, running_jobs,
                   workers, max_workers>>

\* pause_current, lines 90-91: job.status = PAUSED; emit
pause_write ==
    /\ UiAt("p_write")
    /\ SetStatus(ui.job, "paused")
    /\ ui' = [ui EXCEPT !.pc = "p_iter"]
    /\ UNCHANGED <<store_vars, queue, handlers, stop_event, pause_event, running_jobs,
                   workers, max_workers, obs>>


\* resume_current, lines 94-96: if self._running_jobs:
\* self._pause_event.clear() and the loop starts
resume_clear ==
    /\ UiAt("idle")
    /\ IF running_jobs # <<>>
          THEN pause_event' = FALSE /\ ui' = IterStart("r_iter")
          ELSE UNCHANGED <<pause_event, ui>>
    /\ obs' = [obs EXCEPT !.paused = FALSE, !.last = "resume"]
    /\ UNCHANGED <<store_vars, jobs, queue, handlers, stop_event, running_jobs, workers,
                   max_workers>>

\* resume_current, lines 96-97: for job in ...: if job.status == PAUSED
resume_iter ==
    /\ UiAt("r_iter")
    /\ IterStep("paused", "r_write")
    /\ UNCHANGED <<store_vars, jobs, queue, handlers, stop_event, pause_event, running_jobs,
                   workers, max_workers, obs>>

\* resume_current, lines 98-99: job.status = RUNNING; emit
resume_write ==
    /\ UiAt("r_write")
    /\ SetStatus(ui.job, "running")
    /\ ui' = [ui EXCEPT !.pc = "r_iter"]
    /\ UNCHANGED <<store_vars, queue, handlers, stop_event, pause_event, running_jobs,
                   workers, max_workers, obs>>

\* cancel_current, lines 102-103: if self._running_jobs:
\* list(self._running_jobs.values())
cancel_snap ==
    /\ UiAt("idle")
    /\ ui' = IF running_jobs # <<>>
                THEN [UiIdle EXCEPT !.pc = "c_iter", !.list = running_jobs]
                ELSE ui
    /\ obs' = [obs EXCEPT !.paused = FALSE, !.last = "cancel"]
    /\ UNCHANGED <<store_vars, jobs, queue, handlers, stop_event, pause_event, running_jobs,
                   workers, max_workers>>

\* cancel_current, lines 103-104: for job in <the list>: if job.status in {...}
cancel_iter ==
    /\ UiAt("c_iter")
    /\ ui.list # <<>>
    /\ ui' = IF jobs[Head(ui.list)].status \in {"running", "paused"}
                THEN [ui EXCEPT !.pc = "c_write", !.job = Head(ui.list)]
                ELSE [ui EXCEPT !.list = Tail(@)]
    /\ UNCHANGED <<store_vars, jobs, queue, handlers, stop_event, pause_event, running_jobs,
                   workers, max_workers, obs>>

\* cancel_current, lines 105-106: job.status = CANCELED; emit
cancel_write ==
    /\ UiAt("c_write")
    /\ SetStatus(ui.job, "canceled")
    /\ ui' = [ui EXCEPT !.pc = "c_iter", !.list = Tail(@), !.job = None]
    /\ Ended(ui.job)
    /\ UNCHANGED <<store_vars, queue, handlers, stop_event, pause_event, running_jobs,
                   workers, max_workers>>

\* cancel_current, line 107: self._pause_event.clear()
cancel_clear ==
    /\ UiAt("c_iter")
    /\ ui.list = <<>>
    /\ pause_event' = FALSE
    /\ ui' = UiIdle
    /\ UNCHANGED <<store_vars, jobs, queue, handlers, stop_event, running_jobs, workers,
                   max_workers, obs>>

\* A faulty set_max_workers that takes n as it is given, without max(1, n).
set_max_workers_unclamped(n) ==
    /\ UiAt("idle")
    /\ n > max_workers => Len(workers) + (n - max_workers) <= MaxThreads
    /\ ui' = IF n = max_workers THEN ui
             ELSE [UiIdle EXCEPT !.pc = IF n > max_workers THEN "grow" ELSE "shrink",
                                 !.n = IF n > max_workers THEN n - max_workers
                                                          ELSE max_workers - n,
                                 !.size = n]
    /\ UNCHANGED <<store_vars, jobs, queue, handlers, stop_event, pause_event, running_jobs,
                   workers, max_workers, obs>>

\* set_max_workers, lines 110-117: max(1, n); equal: return; larger: start the
\* difference; smaller: queue that many sentinels.
set_max_workers(n) ==
    /\ UiAt("idle")
    /\ LET m == Max(1, n) IN
       /\ m > max_workers => Len(workers) + (m - max_workers) <= MaxThreads
       /\ ui' = IF m = max_workers THEN ui
                ELSE [UiIdle EXCEPT !.pc = IF m > max_workers THEN "grow" ELSE "shrink",
                                    !.n = IF m > max_workers THEN m - max_workers
                                                             ELSE max_workers - m,
                                    !.size = m]
    /\ UNCHANGED <<store_vars, jobs, queue, handlers, stop_event, pause_event, running_jobs,
                   workers, max_workers, obs>>

\* The end of set_max_workers' loop: line 120, self._max_workers = max_workers
ResizeStep ==
    IF ui.n = 1
       THEN ui' = UiIdle /\ max_workers' = ui.size
       ELSE ui' = [ui EXCEPT !.n = @ - 1] /\ max_workers' = max_workers

\* _start_workers, lines 123-126: one new thread, started
start_worker ==
    /\ UiAt("grow")
    /\ workers' = Append(workers, NewWorker)
    /\ ResizeStep
    /\ UNCHANGED <<store_vars, jobs, queue, handlers, stop_event, pause_event, running_jobs,
                   obs>>

\* A faulty shrink that queues two sentinels for each worker to remove.
put_two_sentinels ==
    /\ UiAt("shrink")
    /\ queue' = queue \o <<None, None>>
    /\ ResizeStep
    /\ UNCHANGED <<store_vars, jobs, handlers, stop_event, pause_event,
                   running_jobs, workers, obs>>

\* set_max_workers, lines 118-119: self._queue.put(None)
put_sentinel ==
    /\ UiAt("shrink")
    /\ queue' = Append(queue, None)
    /\ ResizeStep
    /\ UNCHANGED <<store_vars, jobs, handlers, stop_event, pause_event, running_jobs, workers,
                   obs>>

Pause == pause_set \/ pause_iter \/ pause_write

Resume == resume_clear \/ resume_iter \/ resume_write

Cancel == cancel_snap \/ cancel_iter \/ cancel_write \/ cancel_clear

Resize == (\E n \in 0..MaxWorkers : set_max_workers(n)) \/ start_worker \/ put_sentinel

Enqueue(types) == (\E t \in types : enqueue_put(t)) \/ enqueue_emit

Register == \E t \in EnqueuedTypes : register_handler(t)

Stop == stop_set \/ stop_put

\* ------------------------------------------ db_manager.py / file_service.py
\* The paths the user registers.
Paths == {"a.txt", "b.txt"}

\* The path of the specifications that follow a single file.
OnePath == {"a.txt"}

\* The display names a caller passes to register_file.
DisplayNames == {"a.txt", "notes"}

\* display_name = None: register_file takes the file's name.
NoName == ""

\* Path(name).stem and Path(name).suffix of the names in use.
Stem(name) == CASE name = "a.txt" -> "a" [] name = "b.txt" -> "b" [] OTHER -> name

Ext(name) == IF name \in {"a.txt", "b.txt"} THEN ".txt" ELSE ""

\* The directory tree a relink scans, as os.walk lists its files.
Moved == <<"moved/a.txt", "moved/b.txt">>

\* The paths of the disk.
DiskPaths == Paths \cup {Moved[i] : i \in 1..Len(Moved)}

\* Path(file_path).name
PathName(p) ==
    CASE p = "moved/a.txt" -> "a.txt" [] p = "moved/b.txt" -> "b.txt" [] OTHER -> p

\* No file at a path; a content is 1..MaxContent and stands for the file's
\* bytes and its timestamp, which shutil.copy2 carries along: the content
\* names the size, the mtime and the hash that stat and compute_file_hash
\* report for it.
Absent == 0

\* A NULL file_hash column.
NULL == 0

\* get_file_state(path, compute_hash=True)
get_file_state(p) ==
    [exists |-> disk[p] # Absent, file_size |-> disk[p],
     modified_time |-> disk[p], file_hash |-> disk[p]]

FileIds == {r.id : r \in files}

\* db.get_file(file_id): the row, for an id in FileIds
get_file(f) == CHOOSE r \in files : r.id = f

\* db.get_file_by_path(path): the rows with that path
get_file_by_path(p) == {r \in files : r.file_path = p}

\* The rows of table versions for a file, in insertion order.
VersionRows(f) == SelectSeq(versions, LAMBDA v : v.file_id = f)

VersionNumbers(f) == {VersionRows(f)[i].version_number : i \in 1..Len(VersionRows(f))}

MaxOf(S) == CHOOSE x \in S : \A y \in S : y <= x

\* A faulty get_next_version_number that forgets the + 1.
current_version_number(f) ==
    IF VersionNumbers(f) = {} THEN 1 ELSE MaxOf(VersionNumbers(f))

\* db.get_next_version_number: SELECT MAX(version_number) ... WHERE file_id = ?
\* and return (result or 0) + 1
get_next_version_number(f) ==
    LET result == IF VersionNumbers(f) = {} THEN 0 ELSE MaxOf(VersionNumbers(f))
    IN  (IF result # 0 THEN result ELSE 0) + 1

\* A NULL pinned_path column; a recorded path is {path}.
NoPinnedPath == {}

\* db.create_version, lines 471-479: the INSERT of a row with number n.
insert_version(f, n, state) ==
    /\ versions' = Append(versions, [file_id |-> f,
                                     version_number |-> n,
                                     file_size |-> state.file_size,
                                     modified_time |-> state.modified_time,
                                     file_hash |-> state.file_hash,
                                     is_pinned |-> FALSE,
                                     pinned_path |-> NoPinnedPath])
    /\ issued' = Append(issued, <<f, n>>)

\* db.create_version called by one caller at a time: the next number is read,
\* then the row is inserted.
create_version(f, state) == insert_version(f, get_next_version_number(f), state)

\* _get_version_path: <versions_dir>/<file_id>/<stem>_v<N><ext>
get_version_path(f, n, original_name) ==
    <<f, [stem |-> Stem(original_name), v |-> n, ext |-> Ext(original_name)]>>

\* _get_legacy_version_path: <versions_dir>/<file_id>/v<N><ext>
get_legacy_version_path(f, n, original_name) ==
    <<f, [stem |-> "", v |-> n, ext |-> Ext(original_name)]>>

\* A directory with one more file in it, or one of its files replaced.
PutFile(dir, k, c) == [x \in DOMAIN dir \cup {k} |-> IF x = k THEN c ELSE dir[x]]

\* A directory without the files in ks.
RemoveFiles(dir, ks) == [x \in DOMAIN dir \ ks |-> dir[x]]

\* _backup_file: shutil.copy2(source, _get_version_path(file_id, N, source.name))
backup_file(p, f, n) ==
    backups' = PutFile(backups, get_version_path(f, n, PathName(p)), disk[p])

\* No path, file id or version number among a call's arguments.
NoPath == ""

NoArg == 0

\* The artifacts of a file in a directory tree: the files of <dir>/<file_id>.
ArtifactsOf(dir, f) == {k \in DOMAIN dir : k[1] = f}

\* The call op(path, id, n) returns `val` (or raises it).
Returns(op, path, id, n, val) ==
    ret' = [op |-> op, path |-> path, id |-> id, n |-> n, val |-> val]

\* A faulty register_file that does not look for a row with the same path.
register_file_again(p, d) ==
    /\ uuids < MaxFiles
    /\ IF disk[p] = Absent
          THEN /\ Returns("register_file", p, NoArg, NoArg, "FileNotFoundError")
               /\ UNCHANGED <<files, versions, disk, backups, uuids, issued>>
          ELSE /\ uuids' = uuids + 1
               /\ files' = files \cup
                     {[id |-> uuids + 1,
                       display_name |-> IF d = NoName THEN PathName(p) ELSE d,
                       file_path |-> p,
                       file_size |-> get_file_state(p).file_size,
                       modified_time |-> get_file_state(p).modified_time,
                       file_hash |-> get_file_state(p).file_hash,
                       status |-> "OK"]}
               /\ create_version(uuids + 1, get_file_state(p))
               /\ backup_file(p, uuids + 1, get_next_version_number(uuids + 1))
               /\ disk' = disk
               /\ Returns("register_file", p, NoArg, NoArg, "ok")
    /\ UNCHANGED <<qvars, more_vars>>

\* FileService.register_file: FileNotFoundError if the path does not exist,
\* ValueError if it is registered already; otherwise the files row (uuid4 id,
\* status OK), its first version and the backup of that version.
register_file(p, d) ==
    /\ uuids < MaxFiles
    /\ IF disk[p] = Absent
          THEN /\ Returns("register_file", p, NoArg, NoArg, "FileNotFoundError")
               /\ UNCHANGED <<files, versions, disk, backups, uuids, issued>>
          ELSE IF get_file_by_path(p) # {}
          THEN /\ Returns("register_file", p, NoArg, NoArg, "ValueError")
               /\ UNCHANGED <<files, versions, disk, backups, uuids, issued>>
          ELSE /\ uuids' = uuids + 1
               /\ files' = files \cup
                     {[id |-> uuids + 1,
                       display_name |-> IF d = NoName THEN PathName(p) ELSE d,
                       file_path |-> p,
                       file_size |-> get_file_state(p).file_size,
                       modified_time |-> get_file_state(p).modified_time,
                       file_hash |-> get_file_state(p).file_hash,
                       status |-> "OK"]}
               /\ create_version(uuids + 1, get_file_state(p))
               /\ backup_file(p, uuids + 1, get_next_version_number(uuids + 1))
               /\ disk' = disk
               /\ Returns("register_file", p, NoArg, NoArg, "ok")
    /\ UNCHANGED <<qvars, more_vars>>

\* db.update_file_metadata: size, mtime, status and hash of the row are set.
update_file_metadata(f, size, mtime, status, hash) ==
    files' = {IF r.id = f
                 THEN [r EXCEPT !.file_size = size, !.modified_time = mtime,
                                !.status = status, !.file_hash = hash]
                 ELSE r : r \in files}

\* A faulty create_new_version that does not test state.exists.
create_new_version_unchecked(f) ==
    /\ Len(VersionRows(f)) < MaxVersions
    /\ IF f \notin FileIds
          THEN /\ Returns("create_new_version", NoPath, f, NoArg, "ValueError")
               /\ UNCHANGED <<files, versions, disk, backups, uuids, issued>>
          ELSE LET r == get_file(f)
                   state == get_file_state(r.file_path)
               IN
               /\ create_version(f, state)
               /\ backup_file(r.file_path, f, get_next_version_number(f))
               /\ update_file_metadata(f, state.file_size, state.modified_time,
                                       "OK", state.file_hash)
               /\ Returns("create_new_version", NoPath, f, NoArg, "ok")
               /\ UNCHANGED <<disk, uuids>>
    /\ UNCHANGED <<qvars, more_vars>>

\* FileService.create_new_version: ValueError if the id is unknown or the live
\* file is missing; otherwise a version of the live state, its backup, and the
\* files row updated to that state with status OK.
create_new_version(f) ==
    /\ Len(VersionRows(f)) < MaxVersions
    /\ IF f \notin FileIds \/ ~get_file_state(get_file(f).file_path).exists
          THEN /\ Returns("create_new_version", NoPath, f, NoArg, "ValueError")
               /\ UNCHANGED <<files, versions, disk, backups, uuids, issued>>
          ELSE LET r == get_file(f)
                   state == get_file_state(r.file_path)
               IN
               /\ create_version(f, state)
               /\ backup_file(r.file_path, f, get_next_version_number(f))
               /\ update_file_metadata(f, state.file_size, state.modified_time,
                                       "OK", state.file_hash)
               /\ Returns("create_new_version", NoPath, f, NoArg, "ok")
               /\ UNCHANGED <<disk, uuids>>
    /\ UNCHANGED <<qvars, more_vars>>

\* A faulty check_file_status that compares the sizes only.
check_file_size(tracked_file, state, use_hash) ==
    IF ~state.exists THEN "MISSING"
    ELSE IF state.file_size # tracked_file.file_size
         THEN IF /\ use_hash /\ tracked_file.file_hash # NULL
                 /\ state.file_hash # NULL
                 /\ state.file_hash = tracked_file.file_hash
                 THEN "OK"
                 ELSE "MODIFIED"
         ELSE "OK"

\* verification.check_file_status(tracked_file, use_hash), `state` being what
\* stat and compute_file_hash report for tracked_file.file_path.
check_file_status(tracked_file, state, use_hash) ==
    IF ~state.exists THEN "MISSING"
    ELSE IF state.file_size # tracked_file.file_size
            \/ state.modified_time # tracked_file.modified_time
         THEN IF /\ use_hash /\ tracked_file.file_hash # NULL
                 /\ state.file_hash # NULL
                 /\ state.file_hash = tracked_file.file_hash
                 THEN "OK"
                 ELSE "MODIFIED"
         ELSE "OK"

\* db.update_file_status
update_file_status(f, status) ==
    files' = {IF r.id = f THEN [r EXCEPT !.status = status] ELSE r : r \in files}

\* FileService.verify_file: ValueError if the id is unknown; the status that
\* check_file_status reports is stored, with the hash if none was stored.
verify_file_call(f) ==
    /\ IF f \notin FileIds
          THEN /\ Returns("verify_file", NoPath, f, NoArg, "ValueError")
               /\ files' = files
          ELSE LET tracked_file == get_file(f)
                   state == get_file_state(tracked_file.file_path)
                   new_status == check_file_status(tracked_file, state, TRUE)
               IN
               /\ IF /\ tracked_file.file_hash = NULL /\ new_status # "MISSING"
                     /\ state.file_hash # NULL
                     THEN update_file_metadata(f, tracked_file.file_size,
                                               tracked_file.modified_time,
                                               new_status, state.file_hash)
                     ELSE IF new_status # tracked_file.status
                     THEN update_file_status(f, new_status)
                     ELSE files' = files
               /\ Returns("verify_file", NoPath, f, NoArg, new_status)
    /\ UNCHANGED <<versions, disk, backups, uuids, issued>>

\* verify_file as the UI and the API call it, one call after another.
verify_file(f) ==
    /\ verify_file_call(f)
    /\ UNCHANGED <<qvars, more_vars>>

\* FileService.get_version_backup_path: the artifact named after the row's
\* display_name if it exists, else the legacy one if it exists, else None
\* (the empty set).
get_version_backup_path(f, n) ==
    IF f \notin FileIds THEN {}
    ELSE LET tracked_file == get_file(f)
             backup_path == get_version_path(f, n, tracked_file.display_name)
             legacy_path == get_legacy_version_path(f, n, tracked_file.display_name)
         IN  IF backup_path \in DOMAIN backups THEN {backup_path}
             ELSE IF legacy_path \in DOMAIN backups THEN {legacy_path}
             ELSE {}

\* A faulty restore_version that takes any artifact of the file when it finds
\* none for the version.
restore_version_any(f, n) ==
    /\ IF f \notin FileIds \/ ArtifactsOf(backups, f) = {}
          THEN /\ Returns("restore_version", NoPath, f, n, "False")
               /\ UNCHANGED <<files, disk>>
          ELSE \E backup_path \in
                  IF get_version_backup_path(f, n) # {}
                     THEN get_version_backup_path(f, n)
                     ELSE ArtifactsOf(backups, f) :
               LET target_path == get_file(f).file_path IN
               /\ disk' = [disk EXCEPT ![target_path] = backups[backup_path]]
               /\ update_file_metadata(f, backups[backup_path], backups[backup_path],
                                       "OK", NULL)
               /\ Returns("restore_version", NoPath, f, n, "True")
    /\ UNCHANGED <<versions, backups, uuids, issued>>
    /\ UNCHANGED <<qvars, more_vars>>

\* FileService.restore_version: False if the id is unknown or no artifact is
\* found; otherwise the artifact is copied over the live file (copy2: with its
\* timestamp), the row takes the live size and mtime with status OK, and,
\* file_hash not being passed, a NULL hash.
restore_version(f, n) ==
    /\ IF f \notin FileIds \/ get_version_backup_path(f, n) = {}
          THEN /\ Returns("restore_version", NoPath, f, n, "False")
               /\ UNCHANGED <<files, disk>>
          ELSE \E backup_path \in get_version_backup_path(f, n) :
               LET target_path == get_file(f).file_path IN
               /\ disk' = [disk EXCEPT ![target_path] = backups[backup_path]]
               /\ update_file_metadata(f, backups[backup_path], backups[backup_path],
                                       "OK", NULL)
               /\ Returns("restore_version", NoPath, f, n, "True")
    /\ UNCHANGED <<versions, backups, uuids, issued>>
    /\ UNCHANGED <<qvars, more_vars>>

\* db.update_display_name, as the UI and the API call it: for a tracked file.
\* Only the row changes; no artifact is renamed.
update_display_name(f, display_name) ==
    /\ f \in FileIds
    /\ get_file(f).display_name # display_name
    /\ files' = {IF r.id = f THEN [r EXCEPT !.display_name = display_name] ELSE r
                  : r \in files}
    /\ UNCHANGED <<versions, disk, backups, uuids, issued, ret>>
    /\ UNCHANGED <<qvars, more_vars>>

\* migrate_existing_files, lines 78-87 and 93-105: the versions whose artifact
\* has neither the name made from display_name nor, for `legacy`, a legacy one.
without_new_path(legacy) ==
    {v \in {<<r, n>> : r \in files, n \in 1..MaxVersions} :
        /\ v[2] \in VersionNumbers(v[1].id)
        /\ get_version_path(v[1].id, v[2], v[1].display_name) \notin DOMAIN backups
        /\ (get_legacy_version_path(v[1].id, v[2], v[1].display_name)
               \in DOMAIN backups) = legacy}

\* migrate_existing_files, lines 96-105: of those, the latest version of a
\* file whose live file exists.
backed_up_from_source ==
    {v \in without_new_path(FALSE) :
        /\ disk[v[1].file_path] # Absent
        /\ v[2] = Len(VersionRows(v[1].id))}

\* migrate_existing_files, lines 76 and 111: the number a run returns.
migrated == Cardinality(without_new_path(TRUE)) + Cardinality(backed_up_from_source)

\* FileService.migrate_existing_files: every legacy artifact is renamed, the
\* latest version gets a backup of the live file (_backup_file: named after
\* the source file), and the number of both is returned.
migrate_existing_files ==
    /\ LET renamed == without_new_path(TRUE)
           old == {get_legacy_version_path(v[1].id, v[2], v[1].display_name) : v \in renamed}
           new == {get_version_path(v[1].id, v[2], v[1].display_name) : v \in renamed}
           copied == {get_version_path(v[1].id, v[2], PathName(v[1].file_path))
                         : v \in backed_up_from_source}
           live(k) == disk[(CHOOSE r \in files : r.id = k[1]).file_path]
       IN
       /\ backups' = [k \in ((DOMAIN backups \ old) \cup new) \cup copied |->
                         IF k \in copied THEN live(k)
                         ELSE IF k \in new THEN backups[<<k[1], [k[2] EXCEPT !.stem = ""]>>]
                         ELSE backups[k]]
       /\ ret' = [op |-> "migrate_existing_files", path |-> NoPath, id |-> NoArg,
                  n |-> migrated, val |-> "ok"]
    /\ UNCHANGED <<files, versions, disk, uuids, issued>>
    /\ UNCHANGED <<qvars, more_vars>>

\* The backup area as an earlier release left it: an artifact under its
\* legacy name v<N><ext>.
legacy_artifact(k) ==
    /\ k \in DOMAIN backups
    /\ k[2].stem # ""
    /\ backups' = PutFile(RemoveFiles(backups, {k}),
                          <<k[1], [k[2] EXCEPT !.stem = ""]>>, backups[k])
    /\ UNCHANGED <<files, versions, disk, uuids, issued, ret>>
    /\ UNCHANGED <<qvars, more_vars>>

\* An artifact is removed from the backup area outside the application.
remove_artifact(k) ==
    /\ k \in DOMAIN backups
    /\ backups' = RemoveFiles(backups, {k})
    /\ UNCHANGED <<files, versions, disk, uuids, issued, ret>>
    /\ UNCHANGED <<qvars, more_vars>>

\* db.get_version_by_number: the rows of that file with that number
get_version_by_number(f, n) ==
    {VersionRows(f)[i] : i \in {j \in 1..Len(VersionRows(f)) :
                                   VersionRows(f)[j].version_number = n}}

\* A faulty set_version_pinned that does not write pinned_path.
set_is_pinned(vs, f, n, is_pinned, pinned_path) ==
    [i \in 1..Len(vs) |->
        IF vs[i].file_id = f /\ vs[i].version_number = n
           THEN [vs[i] EXCEPT !.is_pinned = is_pinned]
           ELSE vs[i]]

\* db.set_version_pinned: UPDATE versions SET is_pinned = ?, pinned_path = ?
\* WHERE file_id = ? AND version_number = ?
set_version_pinned(vs, f, n, is_pinned, pinned_path) ==
    [i \in 1..Len(vs) |->
        IF vs[i].file_id = f /\ vs[i].version_number = n
           THEN [vs[i] EXCEPT !.is_pinned = is_pinned, !.pinned_path = pinned_path]
           ELSE vs[i]]

\* _get_pinned_version_path: <pin storage>/<file_id>/<stem>_v<N>_pinned<ext>
get_pinned_version_path(f, n, display_name) ==
    <<f, [stem |-> Stem(display_name), v |-> n, ext |-> Ext(display_name)]>>

\* pin_version copies an artifact: the file is tracked and its backup is found.
CanPin(f, n) == f \in FileIds /\ get_version_backup_path(f, n) # {}

\* What FileService.pin_version does to the store (the pin storage path is
\* set by MainWindow.__init__ and by the API's startup): nothing if the file is
\* unknown or the backup is not found; otherwise the pin directory of the file
\* is made, the backup is copied into it and the version row records the copy.
pin_version_call(f, n) ==
    IF ~CanPin(f, n)
       THEN UNCHANGED <<versions, pins, pin_dirs>>
       ELSE \E backup_path \in get_version_backup_path(f, n) :
            LET pinned_path == get_pinned_version_path(f, n, get_file(f).display_name) IN
            /\ pin_dirs' = pin_dirs \cup {f}
            /\ pins' = PutFile(pins, pinned_path, backups[backup_path])
            /\ versions' = set_version_pinned(versions, f, n, TRUE, {pinned_path})

\* unpin_version has something to undo: the version exists and is pinned.
CanUnpin(f, n) == \E version \in get_version_by_number(f, n) : version.is_pinned

\* A faulty unpin that leaves the emptied pin directory in place.
unpin_version_keeps_dir(f, n) ==
    IF ~CanUnpin(f, n)
       THEN UNCHANGED <<versions, pins, pin_dirs>>
       ELSE \E version \in get_version_by_number(f, n) :
            /\ pins' = RemoveFiles(pins, version.pinned_path \cap DOMAIN pins)
            /\ pin_dirs' = pin_dirs
            /\ versions' = set_version_pinned(versions, f, n, FALSE, NoPinnedPath)

\* What FileService.unpin_version does to the store: nothing if the version
\* does not exist or is not pinned; otherwise the recorded copy is unlinked if
\* it exists, its directory is removed if it exists and is empty, and the
\* version row is cleared.
unpin_version_call(f, n) ==
    IF ~CanUnpin(f, n)
       THEN UNCHANGED <<versions, pins, pin_dirs>>
       ELSE \E version \in get_version_by_number(f, n) :
            LET left == RemoveFiles(pins, version.pinned_path \cap DOMAIN pins)
                parents == {pinned_path[1] : pinned_path \in version.pinned_path}
            IN
            /\ pins' = left
            /\ pin_dirs' = pin_dirs \ {d \in parents : ArtifactsOf(left, d) = {}}
            /\ versions' = set_version_pinned(versions, f, n, FALSE, NoPinnedPath)

\* FileService.pin_version: returns the pinned path, or None.
pin_version(f, n) ==
    /\ pin_version_call(f, n)
    /\ Returns("pin_version", NoPath, f, n, IF CanPin(f, n) THEN "path" ELSE "None")
    /\ UNCHANGED <<files, disk, backups, uuids, issued, events, tag_links, tags, args, schema, calls>>
    /\ UNCHANGED qvars

\* FileService.unpin_version: returns True if it unpinned.
unpin_version(f, n) ==
    /\ unpin_version_call(f, n)
    /\ Returns("unpin_version", NoPath, f, n, IF CanUnpin(f, n) THEN "True" ELSE "False")
    /\ UNCHANGED <<files, disk, backups, uuids, issued, events, tag_links, tags, args, schema, calls>>
    /\ UNCHANGED qvars

\* FileService.toggle_pin_version: (False, None) if there is no such version
\* or after unpinning a pinned one; otherwise (True, what pin_version returned).
toggle_pin_version(f, n) ==
    /\ IF get_version_by_number(f, n) = {}
          THEN /\ UNCHANGED <<versions, pins, pin_dirs>>
               /\ Returns("toggle_pin_version", NoPath, f, n, "(False, None)")
          ELSE IF CanUnpin(f, n)
          THEN /\ unpin_version_call(f, n)
               /\ Returns("toggle_pin_version", NoPath, f, n, "(False, None)")
          ELSE /\ pin_version_call(f, n)
               /\ Returns("toggle_pin_version", NoPath, f, n,
                          IF CanPin(f, n) THEN "(True, path)" ELSE "(True, None)")
    /\ UNCHANGED <<files, disk, backups, uuids, issued, events, tag_links, tags, args, schema, calls>>
    /\ UNCHANGED qvars

\* models.EventType
EventType ==
    {"RESTORE", "PIN", "UNPIN", "DELETE", "VERIFY_OK", "VERIFY_MODIFIED",
     "VERIFY_MISSING", "RELINK"}

\* The tag names in use, normalized.
Tags == {"#draft"}

\* The tag names of the files that are tagged and untagged.
TagNames == {"#draft", "#final"}

\* db.get_or_create_tag: the tags table with a row of that name.
get_or_create_tag(tag_name) == tags \cup {tag_name}

\* A garbage collection that removes no tag.
delete_no_tags(rows, links) == rows

\* db.delete_unused_tags: DELETE FROM tags WHERE id NOT IN (SELECT DISTINCT
\* tag_id FROM tag_links).
delete_unused_tags(rows, links) ==
    {t \in rows : t \in {l.tag_id : l \in links}}

\* db.create_event, as the UI and the API call it: for a tracked file.
create_event(f, event_type) ==
    /\ f \in FileIds
    /\ Len(events) < MaxEvents
    /\ events' = Append(events, [file_id |-> f, event_type |-> event_type])
    /\ UNCHANGED <<files, versions, disk, backups, uuids, issued, ret, tag_links, tags, pins, pin_dirs, args, schema, calls>>
    /\ UNCHANGED qvars

\* FileService.add_tag_to_file, as the UI and the API call it: for a tracked
\* file. get_or_create_tag finds the tag by its name; a link that exists is
\* not inserted again.
add_tag_to_file(f, tag_name) ==
    /\ f \in FileIds
    /\ tags' = get_or_create_tag(tag_name)
    /\ tag_links' = tag_links \cup {[tag_id |-> tag_name, file_id |-> f]}
    /\ Returns("add_tag_to_file", NoPath, f, NoArg, tag_name)
    /\ UNCHANGED <<files, versions, disk, backups, uuids, issued, events, pins, pin_dirs, args, schema, calls>>
    /\ UNCHANGED qvars

\* FileService.remove_tag_from_file, as the UI and the API call it: for a
\* tracked file. The link is deleted, then the unused tags; the number of
\* tags delete_unused_tags deleted is kept for the analysis.
remove_tag_from_file(f, tag_id) ==
    /\ f \in FileIds
    /\ tag_links' = tag_links \ {[tag_id |-> tag_id, file_id |-> f]}
    /\ tags' = delete_unused_tags(tags, tag_links')
    /\ Returns("remove_tag_from_file", NoPath, f, Cardinality(tags \ tags'), "ok")
    /\ UNCHANGED <<files, versions, disk, backups, uuids, issued, events, pins, pin_dirs, args, schema, calls>>
    /\ UNCHANGED qvars

\* FileService.delete_file: the backup directory of the file is removed, then
\* its versions and its files row.
delete_file(f) ==
    /\ backups' = RemoveFiles(backups, {k \in DOMAIN backups : k[1] = f})
    /\ versions' = SelectSeq(versions, LAMBDA v : v.file_id # f)
    /\ files' = {r \in files : r.id # f}
    /\ Returns("delete_file", NoPath, f, NoArg, "ok")
    /\ UNCHANGED <<disk, uuids, issued>>
    /\ UNCHANGED <<qvars, more_vars>>

\* The user's programs write, replace or remove the live file at a path.
write_file(p, c) ==
    /\ disk[p] # c
    /\ disk' = [disk EXCEPT ![p] = c]
    /\ UNCHANGED <<files, versions, backups, uuids, issued, ret>>
    /\ UNCHANGED <<qvars, more_vars>>

\* The tables and columns of the CREATE TABLE statements of _init_database.
CreatedColumns ==
    [files |-> {"id", "display_name", "file_path", "file_size", "modified_time",
                "status", "created_at", "file_hash"},
     versions |-> {"id", "file_id", "version_number", "commit_message", "file_size",
                   "modified_time", "created_at", "file_hash"},
     tags |-> {"id", "name", "created_at"},
     tag_links |-> {"id", "tag_id", "file_id", "version_id", "created_at"},
     events |-> {"id", "file_id", "event_type", "description", "created_at"},
     metadata |-> {"file_id", "data", "created_at", "updated_at"},
     projects |-> {"id", "name", "description", "color", "created_at"}]

TableNames == DOMAIN CreatedColumns

\* The indexes of the CREATE INDEX statements, with their tables.
CreatedIndexes ==
    {<<"idx_versions_file_id", "versions">>, <<"idx_tag_links_file_id", "tag_links">>,
     <<"idx_tag_links_tag_id", "tag_links">>, <<"idx_events_file_id", "events">>}

\* The columns the _migrate_add_* functions add, in the order of the calls.
Migrations ==
    <<<<"files", "file_hash">>, <<"versions", "file_hash">>,
      <<"files", "is_favorite">>, <<"files", "is_archived">>,
      <<"versions", "is_pinned">>, <<"versions", "pinned_path">>,
      <<"files", "project_id">>>>

\* A migration that does not look at PRAGMA table_info.
not_in_columns_unchecked(columns, name) == TRUE

\* name not in columns, columns read from PRAGMA table_info(table).
not_in_columns(columns, name) == name \notin columns

\* The _migrate_add_* calls from the i-th on. ALTER TABLE .. ADD COLUMN of a
\* column the table has raises sqlite3.OperationalError (duplicate column
\* name); the statements before it stay applied.
RECURSIVE migrate(_, _)
migrate(s, i) ==
    IF i > Len(Migrations) THEN [schema |-> s, val |-> "ok"]
    ELSE LET t == Migrations[i][1]
             name == Migrations[i][2]
         IN  IF ~not_in_columns(s.tables[t], name) THEN migrate(s, i + 1)
             ELSE IF name \in s.tables[t]
                     THEN [schema |-> s, val |-> "OperationalError"]
             ELSE migrate([s EXCEPT !.tables[t] = @ \cup {name}], i + 1)

\* A database file with no table.
NoSchema == [tables |-> [t \in TableNames |-> {}], indexes |-> {}]

\* _init_database on schema s: CREATE TABLE IF NOT EXISTS and CREATE INDEX IF
\* NOT EXISTS, then the migrations.
init_database(s) ==
    LET created ==
           [tables |-> [t \in TableNames |->
                          IF s.tables[t] = {} THEN CreatedColumns[t] ELSE s.tables[t]],
            indexes |-> s.indexes \cup {x[1] : x \in CreatedIndexes}]
    IN  migrate(created, 1)

\* DatabaseManager.__init__: _init_database, which writes no row.
_init_database ==
    /\ schema' = init_database(schema).schema
    /\ Returns("_init_database", NoPath, NoArg, NoArg, init_database(schema).val)
    /\ UNCHANGED <<files, versions, disk, backups, uuids, issued>>
    /\ UNCHANGED <<events, tag_links, tags, pins, pin_dirs, args, calls>>
    /\ UNCHANGED qvars

\* No create_version call is in progress.
NoCalls == <<>>

\* Empty tables, an empty backup area, and the disk before the user has made
\* any file.
EmptyTables ==
    /\ files = {}
    /\ versions = <<>>
    /\ disk = [p \in DiskPaths |-> Absent]
    /\ backups = <<>>
    /\ uuids = 0
    /\ issued = <<>>
    /\ ret = [op |-> "none", path |-> NoPath, id |-> NoArg, n |-> NoArg, val |-> "none"]
    /\ events = <<>>
    /\ tag_links = {}
    /\ tags = {}
    /\ pins = <<>>
    /\ pin_dirs = {}
    /\ calls = NoCalls

\* DatabaseManager.__init__ on a new database: the schema _init_database
\* makes, and empty tables.
TablesInit == EmptyTables /\ schema = init_database(NoSchema).schema

\* No call of a store-free function is analysed.
NoArgs == [kind |-> "none"]

StoreInit == TablesInit /\ args = NoArgs

\* MainWindow.__init__ (main_window.py 53-54 and 236-239): the queue is built
\* with the stored worker count and the four handlers are registered before
\* the window is shown.
MainWindowInit(arg) ==
    /\ jobs = <<>>
    /\ queue = <<>>
    /\ handlers = JobType
    /\ stop_event = FALSE
    /\ pause_event = FALSE
    /\ running_jobs = <<>>
    /\ max_workers = Max(1, arg)
    /\ workers = [w \in 1..Max(1, arg) |-> NewWorker]
    /\ ui = UiIdle
    /\ obs = ObsInit

\* settings.value("job_queue_max_workers", 1): one worker unless the user has
\* stored another count.
DefaultWorkers == 1

Workers == \E w \in 1..MaxThreads : Worker(w)

\* The workers of the application, where no job lacks a handler.
HandledWorkers == \E w \in 1..MaxThreads : HandledWorker(w)

\* The application as installed (one worker): jobs of both kinds are enqueued
\* and the Job Queue dialog's buttons pause, resume and cancel them.
Init == MainWindowInit(DefaultWorkers) /\ StoreInit

Next == HandledWorkers \/ Enqueue(EnqueuedTypes) \/ Pause \/ Resume \/ Cancel

Spec == Init /\ [][Next]_vars

\* The same with any stored worker count and single-step jobs only.
DualInit == (\E arg \in 0..MaxWorkers : MainWindowInit(arg)) /\ StoreInit

DualNext == HandledWorkers \/ Enqueue({"pin_copy"}) \/ Pause \/ Resume \/ Cancel

DualSpec == DualInit /\ [][DualNext]_vars

\* The queue on its own, from its construction: handlers are registered or not,
\* jobs are enqueued, the pool is resized and stopped.
PoolInit == (\E arg \in 0..MaxWorkers : JobQueueInit(arg)) /\ StoreInit

PoolNext == Workers \/ Register \/ Enqueue(EnqueuedTypes) \/ Resize \/ Stop

PoolSpec == PoolInit /\ [][PoolNext]_vars

\* The pool while the application runs and nobody pauses, cancels or stops:
\* every started thread keeps being scheduled, and a JobQueue call that the UI
\* thread has begun runs to its end.
LiveNext == HandledWorkers \/ Enqueue(EnqueuedTypes) \/ Resize

UiFinishes == enqueue_emit \/ start_worker \/ put_sentinel

LiveSpec ==
    /\ DualInit
    /\ [][LiveNext]_vars
    /\ \A w \in 1..MaxThreads : WF_vars(HandledWorker(w))
    /\ WF_vars(UiFinishes)

\* The application (one worker) while jobs are enqueued, paused and resumed
\* and nobody cancels or stops: a thread that can take a step again and
\* again takes it (a handler polling the pause flag sees it clear if it is
\* clear again and again), a JobQueue call that the UI thread has begun runs
\* to its end, and a pause_current call is followed by a resume_current call.
PauseNext == HandledWorkers \/ Enqueue(EnqueuedTypes) \/ Pause \/ Resume

UiReturns == enqueue_emit \/ pause_iter \/ pause_write \/ resume_iter \/ resume_write

ResumeAfterPause == obs.last = "pause" /\ resume_clear

PauseSpec ==
    /\ Init
    /\ [][PauseNext]_vars
    /\ \A w \in 1..MaxThreads : SF_vars(HandledWorker(w))
    /\ WF_vars(UiReturns)
    /\ SF_vars(ResumeAfterPause)

\* The file service on its own: files are written, registered, versioned and
\* deleted, one call after another.
FileNext ==
    \/ \E p \in Paths : register_file(p, NoName)
    \/ \E f \in 1..MaxFiles : create_new_version(f)
    \/ \E f \in 1..MaxFiles : delete_file(f)
    \/ \E p \in Paths, c \in 0..MaxContent : write_file(p, c)

FileSpec == Init /\ [][FileNext]_vars

\* ===================================================================== claims
Status(j) == jobs[j].status

\* The job statuses that change in a step, as <<job, old, new>>.
Changes == {<<j, jobs[j].status, jobs'[j].status>> : j \in
               {k \in DOMAIN jobs : jobs'[k].status # jobs[k].status}}

\* The transitions of the documented state machine.
Legal == ({<<"queued", "running">>, <<"running", "paused">>, <<"paused", "running">>}
           \cup ({"running", "paused"} \X Terminal))

\* The started threads that have not left _run.
Alive == {w \in WorkerIds : workers[w].pc # "exited"}

\* The number of None entries in the queue.
Sentinels == Cardinality({i \in 1..Len(queue) : queue[i] = None})

\* The worker has emitted job_completed for its job.
Finished(w) == w \in WorkerIds /\ workers[w].pc = "pop"

\* C1: under any interleaving of workers, handlers and pause / resume / cancel
\* calls a job's status changes only along QUEUED->RUNNING, RUNNING->PAUSED,
\* PAUSED->RUNNING and RUNNING-or-PAUSED -> COMPLETED / FAILED / CANCELED; a
\* terminal status never changes and no job returns to QUEUED.
C1_StatusFollowsStateMachine ==
    [][\A c \in Changes : <<c[2], c[3]>> \in Legal]_vars

\* C2: once the checkpoint of a job's handler has seen the cancellation (it
\* returned False, and the handler returns), the job's status is CANCELED when
\* the worker finishes the job and ever after; it is never COMPLETED.
C2_CanceledAtGateStaysCanceled ==
    \A j \in obs.gate : Status(j) = "canceled"

\* C2's case: a job was canceled while its handler ran, the handler's next
\* checkpoint returned False and the worker has finished the job.
C2_Witness ==
    \E j \in obs.gate : obs.done[j] = 1 /\ \A i \in 1..Len(running_jobs) : running_jobs[i] # j

\* C3 as stated: a job whose handler has returned normally (it did not raise),
\* and that was never paused or canceled, ends COMPLETED with progress 100.
C3_ReturnedHandlerCompletes ==
    \A w \in WorkerIds :
        Finished(w) /\ workers[w].how \in {"ok", "failed"} =>
            /\ Status(workers[w].job) = "completed"
            /\ jobs[workers[w].job].progress = 100

\* C3, amended: while nobody pauses, cancels or stops, every enqueued job is
\* eventually dequeued and finished by a worker; its status changes only
\* QUEUED->RUNNING and RUNNING->COMPLETED or FAILED; and a job whose handler
\* returned normally without marking it FAILED is COMPLETED with progress 100
\* when job_completed is emitted for it, and stays so.
C3_Lifecycle ==
    /\ [](\A w \in WorkerIds :
             workers[w].pc \in {"emit", "pop"} /\ workers[w].how = "ok" =>
                /\ Status(workers[w].job) = "completed"
                /\ jobs[workers[w].job].progress = 100)
    /\ [][\A c \in Changes : <<c[2], c[3]>> \in
             {<<"queued", "running">>, <<"running", "completed">>,
              <<"running", "failed">>}]_vars
    /\ \A j \in 1..MaxJobs :
          (j \in JobIds) ~> (\E i \in 1..Len(obs.dequeued) : obs.dequeued[i] = j)
    /\ \A j \in 1..MaxJobs :
          (j \in JobIds) ~>
             (j \in JobIds /\ obs.done[j] = 1 /\ Status(j) \in {"completed", "failed"})

\* C3's case: a VERIFY_ALL job and a single-step job have both been run to
\* COMPLETED, the second one just now.
C3_Witness ==
    /\ \E w \in WorkerIds :
          Finished(w) /\ workers[w].how = "ok" /\ Status(workers[w].job) = "completed"
    /\ Len(jobs) = MaxJobs
    /\ \A j \in JobIds : Status(j) = "completed"
    /\ \E j \in JobIds : jobs[j].job_type = "verify_all"

\* C4: when a handler raises, the job ends FAILED with the exception text in
\* job.error (here: when its worker has emitted job_completed for it).
C4_RaisedHandlerEndsFailed ==
    \A w \in WorkerIds :
        Finished(w) /\ workers[w].how = "raised" =>
            /\ Status(workers[w].job) = "failed"
            /\ jobs[workers[w].job].error = "str(exc)"

\* C5: a job whose type has no registered handler is never observed in
\* status RUNNING.
C5_NoHandlerNeverRunning ==
    \A j \in JobIds : jobs[j].job_type \notin handlers => Status(j) # "running"

\* C6: from the return of a pause_current call that found running jobs until
\* the next resume_current or cancel_current call, no job has status RUNNING.
C6_NoRunningJobWhilePaused ==
    obs.paused => \A j \in JobIds : Status(j) # "running"

\* C7: the job_updated notification of enqueue (line 76) is delivered with the
\* job in status QUEUED.
C7_EnqueueNotifiesQueued ==
    [][enqueue_emit => Status(ui.job) = "queued"]_vars

\* C8: set_max_workers starts exactly the missing workers, or queues exactly
\* one sentinel per worker to remove, before it returns (so between calls the
\* live threads minus the queued sentinels are _max_workers, and inside a call
\* the loop's remaining count makes up the difference); a thread leaves _run
\* only by taking a sentinel from the queue, never with a job in hand; and,
\* handlers terminating, the number of live threads becomes max(1, n) unless
\* another resize has begun.
C8_Resize ==
    /\ [](/\ UiAt("grow") => Cardinality(Alive) - Sentinels + ui.n = ui.size
          /\ UiAt("shrink") => Cardinality(Alive) - Sentinels - ui.n = ui.size
          /\ ui.pc \notin {"grow", "shrink"} =>
                Cardinality(Alive) - Sentinels = max_workers)
    /\ [][\A w \in WorkerIds :
             workers[w].pc # "exited" /\ workers'[w].pc = "exited" =>
                /\ workers[w].pc = "get"
                /\ queue # <<>> /\ Head(queue) = None /\ queue' = Tail(queue)]_vars
    /\ \A k \in 1..MaxWorkers :
          (ui.pc \notin {"grow", "shrink"} /\ max_workers = k)
             ~> (Cardinality(Alive) = k \/ ui.pc \in {"grow", "shrink"})

\* C8's case: the pool has been shrunk, a thread has taken the sentinel and
\* left, and the live threads are max(1, n) again.
C8_Witness ==
    /\ UiAt("idle")
    /\ \E w \in WorkerIds : workers[w].pc = "exited" /\ workers[w].how = "sentinel"
    /\ Cardinality(Alive) = max_workers
    /\ Sentinels = 0
    /\ jobs # <<>>

\* C9: a job's handler is invoked at most once; no two workers hold the same
\* job; jobs leave the queue in the order they were enqueued (job ids count
\* the enqueues); and with one worker job k+1 has not left QUEUED unless job k
\* has had a terminal status.
C9_OneWorkerPerJobInOrder ==
    /\ \A j \in JobIds : obs.calls[j] <= 1
    /\ \A v, w \in WorkerIds :
          v # w /\ workers[v].job # None => workers[v].job # workers[w].job
    /\ \A i \in 1..Len(obs.dequeued) : obs.dequeued[i] = i
    /\ Len(workers) = 1 =>
          \A k \in JobIds : k + 1 \in JobIds /\ Status(k + 1) # "queued" => k \in obs.ended

\* C9's case: two jobs were enqueued, the single worker has finished the
\* first and is running the handler of the second.
C9_Witness ==
    /\ Len(workers) = 1
    /\ Len(jobs) = 2
    /\ obs.dequeued = <<1, 2>>
    /\ obs.calls = <<1, 1>>
    /\ Status(1) \in Terminal
    /\ Status(2) = "running"

\* C10: for every tracked file the i-th version row inserted for it has
\* version_number i, so the numbers are exactly 1..k without gap or duplicate
\* and each new version got max(existing) + 1; and no <<file, number>> pair is
\* ever inserted twice.
C10_VersionNumbersSequential ==
    /\ \A f \in FileIds :
          \A i \in 1..Len(VersionRows(f)) : VersionRows(f)[i].version_number = i
    /\ \A a, b \in 1..Len(issued) : a # b => issued[a] # issued[b]

\* C10's case: a file has MaxVersions versions, made by register_file and
\* create_new_version, and another file has got versions too.
C10_Witness ==
    /\ \E f \in FileIds : Len(VersionRows(f)) = MaxVersions
    /\ Len(issued) > MaxVersions

\* relink_missing_files, the index of the scan: the entries with that name, in
\* the order os.walk produced them.
IndexGet(index, name) == SelectSeq(index, LAMBDA entry : entry.name = name)

\* _mtime_diff
mtime_diff(entry, tracked_file) ==
    IF entry.mtime >= tracked_file.modified_time
       THEN entry.mtime - tracked_file.modified_time
       ELSE tracked_file.modified_time - entry.mtime

\* min(...) keeps the item it holds unless a later one has a smaller key.
RECURSIVE MinFrom(_, _, _)
MinFrom(entries, tracked_file, best) ==
    IF entries = <<>> THEN best
    ELSE MinFrom(Tail(entries), tracked_file,
                 IF mtime_diff(Head(entries), tracked_file) < mtime_diff(best, tracked_file)
                    THEN Head(entries)
                    ELSE best)

\* A faulty choice: the first entry, whatever its mtime.
first_entry(candidate_entries, tracked_file) == Head(candidate_entries)

\* min(candidate_entries, key=_mtime_diff)
min_by_mtime_diff(candidate_entries, tracked_file) ==
    MinFrom(Tail(candidate_entries), tracked_file, Head(candidate_entries))

\* for entry in candidate_entries: if cand_hash == tracked_file.file_hash:
\* chosen = (entry, cand_hash); break
RECURSIVE first_with_hash(_, _)
first_with_hash(entries, hash) ==
    IF entries = <<>> THEN {}
    ELSE IF Head(entries).hash = hash THEN {Head(entries)}
    ELSE first_with_hash(Tail(entries), hash)

\* A hash loop without the break: every entry is hashed.
all_hashed(entries, hash) == Len(entries)

\* The number of compute_file_hash calls of that loop, each followed by
\* summary["hash_checked"] += 1: the entries up to the first match.
RECURSIVE hashes_computed(_, _)
hashes_computed(entries, hash) ==
    IF entries = <<>> THEN 0
    ELSE IF Head(entries).hash = hash THEN 1
    ELSE 1 + hashes_computed(Tail(entries), hash)

\* relink_missing_files, lines 337-350: what one missing file adds to
\* summary["hash_checked"].
hash_checked(tracked_file, index, use_hash) ==
    LET name == PathName(tracked_file.file_path)
        candidates == IndexGet(index, name)
        size_matched == SelectSeq(candidates, LAMBDA c : c.size = tracked_file.file_size)
        candidate_entries == IF size_matched # <<>> THEN size_matched ELSE candidates
    IN  IF use_hash /\ tracked_file.file_hash # NULL
           THEN hashes_computed(candidate_entries, tracked_file.file_hash)
           ELSE 0

\* relink_missing_files, lines 337-359: what is chosen for a missing file, as
\* the set of the chosen (entry, new_hash), empty if nothing is chosen.
chosen_for(tracked_file, index, use_hash) ==
    LET name == PathName(tracked_file.file_path)
        candidates == IndexGet(index, name)
        size_matched == SelectSeq(candidates, LAMBDA c : c.size = tracked_file.file_size)
        candidate_entries == IF size_matched # <<>> THEN size_matched ELSE candidates
    IN  IF use_hash /\ tracked_file.file_hash # NULL
           THEN {[entry |-> entry, new_hash |-> entry.hash] :
                    entry \in first_with_hash(candidate_entries, tracked_file.file_hash)}
           ELSE IF candidate_entries # <<>>
                   THEN {[entry |-> min_by_mtime_diff(candidate_entries, tracked_file),
                          new_hash |-> tracked_file.file_hash]}
                   ELSE {}

\* The names file_service.py binds at module level from `database`.
FileServiceNames == {"DatabaseManager", "TrackedFile", "Version", "FileStatus", "Tag"}

\* A files table without the UNIQUE constraint.
no_constraint(rows, f, file_path) == FALSE

\* files.file_path TEXT NOT NULL UNIQUE: the UPDATE of row f to file_path is
\* refused (sqlite3.IntegrityError) if another row has that path.
unique_violation(rows, f, file_path) ==
    \E r \in rows : r.id # f /\ r.file_path = file_path

\* db.update_file_location: one UPDATE of path, size, mtime, status and hash.
update_file_location(rows, f, file_path, file_size, modified_time, status, file_hash) ==
    {IF r.id = f
        THEN [r EXCEPT !.file_path = file_path, !.file_size = file_size,
                       !.modified_time = modified_time, !.status = status,
                       !.file_hash = file_hash]
        ELSE r : r \in rows}

\* The index relink builds (no filter set): the files under the root, in
\* os.walk's order.
RECURSIVE ScanFrom(_)
ScanFrom(i) ==
    IF i > Len(Moved) THEN <<>>
    ELSE (IF disk[Moved[i]] = Absent THEN <<>>
          ELSE <<[path |-> Moved[i], name |-> PathName(Moved[i]), size |-> disk[Moved[i]],
                  mtime |-> disk[Moved[i]], hash |-> disk[Moved[i]]]>>)
         \o ScanFrom(i + 1)

\* get_all_files(): ORDER BY created_at DESC, the newest row first.
RECURSIVE NewestFirst(_)
NewestFirst(rows) ==
    IF rows = {} THEN <<>>
    ELSE LET newest == CHOOSE r \in rows : \A x \in rows : x.id <= r.id
         IN  <<newest>> \o NewestFirst(rows \ {newest})

\* The rows relink takes for missing: status MISSING, or no file at the path.
IsMissing(tracked_file) ==
    tracked_file.status = "MISSING" \/ disk[tracked_file.file_path] = Absent

\* relink_missing_files, lines 336-385: the loop over the missing files. A
\* file with no choice is counted not_found; for a chosen one the row is
\* relocated, which the UNIQUE constraint may refuse: IntegrityError leaves
\* the loop and the call; then create_event(.., EventType.RELINK, ..) is evaluated, and
\* the name EventType is unbound in file_service.py: NameError leaves the loop
\* and the call.
RECURSIVE relink_loop(_, _, _, _, _)
relink_loop(missing, rows, evs, index, use_hash) ==
    IF missing = <<>> THEN [files |-> rows, events |-> evs, val |-> "summary"]
    ELSE LET tracked_file == Head(missing)
             chosen == chosen_for(tracked_file, index, use_hash)
         IN  IF chosen = {}
                THEN relink_loop(Tail(missing), rows, evs, index, use_hash)
                ELSE LET c == CHOOSE c \in chosen : TRUE
                         relinked == update_file_location(rows, tracked_file.id, c.entry.path,
                                        c.entry.size, c.entry.mtime, "OK", c.new_hash)
                     IN  IF unique_violation(rows, tracked_file.id, c.entry.path)
                            THEN [files |-> rows, events |-> evs, val |-> "IntegrityError"]
                         ELSE IF "EventType" \notin FileServiceNames
                            THEN [files |-> relinked, events |-> evs, val |-> "NameError"]
                            ELSE relink_loop(Tail(missing), relinked,
                                    Append(evs, [file_id |-> tracked_file.id,
                                                 event_type |-> "RELINK"]),
                                    index, use_hash)

\* FileService.relink_missing_files(root, use_hash) with no filter.
relink_missing_files(use_hash) ==
    /\ LET missing == SelectSeq(NewestFirst(files), IsMissing)
           out == relink_loop(missing, files, events, ScanFrom(1), use_hash)
       IN
       /\ files' = out.files
       /\ events' = out.events
       /\ Returns("relink_missing_files", NoPath, NoArg, NoArg, out.val)
    /\ UNCHANGED <<versions, disk, backups, uuids, issued, tag_links, tags, pins, pin_dirs, args, schema, calls>>
    /\ UNCHANGED qvars

\* The files a scan finds for a missing a.txt recorded with mtime 2: up to
\* MaxCandidates of them, the i-th found at path i, with either name, any
\* size, and an mtime of 1, 3 or 102.
ScannedFiles ==
    [name : Paths, size : 1..MaxContent, mtime : {1, 3, 102}, hash : {1}]

Indexes ==
    UNION {[1..len -> ScannedFiles] : len \in 0..MaxCandidates}

WithPaths(found) ==
    [i \in 1..Len(found) |->
        [path |-> i, name |-> found[i].name, size |-> found[i].size,
         mtime |-> found[i].mtime, hash |-> found[i].hash]]

MissingFiles ==
    [file_path : {"a.txt"}, file_size : 1..MaxContent, modified_time : {2},
     file_hash : {NULL, 1}]

SelectArgs ==
    [kind : {"relink"}, tracked_file : MissingFiles,
     index : {WithPaths(found) : found \in Indexes}]

\* The choice of relink_missing_files(root) for one missing file: use_hash is
\* False by default. The chosen path is recorded, NoArg if nothing is chosen.
call_chosen_for ==
    /\ args.kind = "relink"
    /\ ret.op = "none"
    /\ LET chosen == chosen_for(args.tracked_file, args.index, FALSE) IN
       IF chosen = {}
          THEN Returns("chosen", NoPath, NoArg, NoArg, "None")
          ELSE \E c \in chosen : Returns("chosen", NoPath, NoArg, c.entry.path, "entry")
    /\ UNCHANGED <<files, versions, disk, backups, uuids, issued, more_vars>>
    /\ UNCHANGED qvars

SelectInit == MainWindowInit(DefaultWorkers) /\ TablesInit /\ args \in SelectArgs

SelectNext == call_chosen_for

SelectSpec == SelectInit /\ [][SelectNext]_vars

\* What check_file_status is called with: the stored size, mtime and hash of
\* a row (the hash may be NULL) and what the disk says of its path: no file,
\* or a size, an mtime and a hash (None if the file cannot be read).
StoredStates ==
    [file_size : 1..MaxContent, modified_time : 1..MaxContent,
     file_hash : {NULL} \cup 1..MaxContent]

LiveStates ==
    {[exists |-> FALSE, file_size |-> 0, modified_time |-> 0, file_hash |-> NULL]}
    \cup [exists : {TRUE}, file_size : 1..MaxContent, modified_time : 1..MaxContent,
          file_hash : {NULL} \cup 1..MaxContent]

StatusArgs == [kind : {"check_file_status"}, tracked_file : StoredStates, state : LiveStates]

\* check_file_status(tracked_file), as verify_file calls it: use_hash is True.
call_check_file_status ==
    /\ args.kind = "check_file_status"
    /\ ret.op = "none"
    /\ Returns("check_file_status", NoPath, NoArg, NoArg,
               check_file_status(args.tracked_file, args.state, TRUE))
    /\ UNCHANGED <<files, versions, disk, backups, uuids, issued, more_vars>>
    /\ UNCHANGED qvars

StatusInit == MainWindowInit(DefaultWorkers) /\ TablesInit /\ args \in StatusArgs

StatusNext == call_check_file_status

StatusSpec == StatusInit /\ [][StatusNext]_vars

\* relink_missing_files, lines 297-318: the walk over the files found under
\* the root, from the i-th on, with the index built so far. An entry over
\* max_size_bytes or older than cutoff_ts is counted in summary, a local name
\* that is bound at line 327, after the walk: UnboundLocalError leaves the
\* walk and the call. None and 0 both switch a filter off.
RECURSIVE walk(_, _, _, _, _)
walk(found, i, max_size_bytes, cutoff_ts, index) ==
    IF i > Len(found) THEN [val |-> "ok", index |-> index]
    ELSE IF max_size_bytes # None /\ found[i].size > max_size_bytes
            THEN [val |-> "UnboundLocalError", index |-> index]
    ELSE IF cutoff_ts # None /\ found[i].mtime < cutoff_ts
            THEN [val |-> "UnboundLocalError", index |-> index]
    ELSE walk(found, i + 1, max_size_bytes, cutoff_ts, Append(index, found[i]))

\* The arguments of a scan: the files under the root, the size limit and the
\* cutoff time (time.time() less modified_within_days days), None for no filter.
ScanArgs ==
    [kind : {"scan"}, found : {WithPaths(found) : found \in Indexes},
     max_size_bytes : {None} \cup 1..MaxContent, cutoff_ts : {None, 2}]

\* relink_missing_files(root, max_size_bytes, modified_within_days) while no
\* file is tracked: the walk, then an empty list of missing files and the
\* summary, whose filter counts start at 0 after the walk.
call_relink_missing_files ==
    /\ args.kind = "scan"
    /\ ret.op = "none"
    /\ LET out == walk(args.found, 1, args.max_size_bytes, args.cutoff_ts, <<>>)
           missing == SelectSeq(NewestFirst(files), IsMissing)
       IN
       ret' = [op |-> "relink_missing_files", path |-> NoPath, id |-> NoArg, n |-> NoArg,
               val |-> IF out.val = "ok" THEN "summary" ELSE out.val,
               checked |-> Len(missing),
               scanned |-> Cardinality({out.index[i].name : i \in DOMAIN out.index}),
               size_filtered |-> 0, date_filtered |-> 0]
    /\ UNCHANGED <<files, versions, disk, backups, uuids, issued, more_vars>>
    /\ UNCHANGED qvars

ScanInit == MainWindowInit(DefaultWorkers) /\ TablesInit /\ args \in ScanArgs

ScanNext == call_relink_missing_files

ScanSpec == ScanInit /\ [][ScanNext]_vars

\* The schemas of older databases: each table may be missing; files and
\* versions may be missing any of the columns added later; the indexes are
\* there or not.
OlderSchemas ==
    {[tables |-> [t \in TableNames |->
                    IF t \notin present THEN {}
                    ELSE IF t = "files" THEN (CreatedColumns[t] \ {"file_hash"}) \cup f
                    ELSE IF t = "versions" THEN (CreatedColumns[t] \ {"file_hash"}) \cup v
                    ELSE CreatedColumns[t]],
      indexes |-> IF indexed
                     THEN {x[1] : x \in {y \in CreatedIndexes : y[2] \in present}}
                     ELSE {}] :
        present \in SUBSET TableNames,
        f \in SUBSET {"file_hash", "is_favorite", "is_archived", "project_id"},
        v \in SUBSET {"file_hash", "is_pinned", "pinned_path"},
        indexed \in BOOLEAN}

MigrateInit ==
    /\ MainWindowInit(DefaultWorkers) /\ EmptyTables /\ args = NoArgs
    /\ schema \in OlderSchemas

\* register_file on the database DatabaseManager.__init__ has initialised.
register_on_initialised(p) ==
    /\ ret.op = "_init_database"
    /\ register_file(p, NoName)

\* The application is started on an older database, and again; once the
\* schema is there files are registered.
MigrateNext ==
    \/ _init_database
    \/ \E p \in OnePath : register_on_initialised(p)
    \/ \E p \in OnePath, c \in 0..MaxContent : write_file(p, c)

MigrateSpec == MigrateInit /\ [][MigrateNext]_vars

\* _run, lines 139-144 and 153, for a VERIFY_ALL job, and handle_verify_all up
\* to its first checkpoint, lines 104-110: get_all_files() returns the rows of
\* the store; with none the loop is skipped and the summary is written.
run_verify_all(w) ==
    /\ AtPc(w, "running")
    /\ jobs[workers[w].job].job_type = "verify_all"
    /\ "verify_all" \in handlers
    /\ LET j == workers[w].job
           n == Cardinality(files)
       IN
       /\ IF n = 0
             THEN SetWorker(w, [workers[w] EXCEPT !.pc = "ret", !.how = "ok"])
             ELSE SetWorker(w, [workers[w] EXCEPT !.pc = "h_chk", !.left = n, !.total = n])
       /\ SetObs("calls", j, obs.calls[j] + 1)
       /\ jobs' = [jobs EXCEPT ![j].status = "running", ![j].progress = 0]
    /\ UNCHANGED <<store_vars, queue, handlers, stop_event, pause_event, running_jobs,
                   max_workers, ui>>

\* handle_verify_all, lines 112-140 for one file of the list (the rows as
\* get_all_files returned them, the newest first): verify_file, the event of
\* the status found, the progress; after the last file line 142 writes the
\* summary into the payload and the handler returns (how = "ok").
handle_verify_all_file(w) ==
    /\ AtPc(w, "h_work")
    /\ LET j == workers[w].job
           idx == workers[w].total - workers[w].left + 1
           f == NewestFirst(files)[idx].id
       IN
       /\ verify_file_call(f)
       /\ events' = Append(events, [file_id |-> f,
                                    event_type |-> IF ret'.val = "MODIFIED" THEN "VERIFY_MODIFIED"
                                                   ELSE IF ret'.val = "MISSING" THEN "VERIFY_MISSING"
                                                   ELSE "VERIFY_OK"])
       /\ jobs' = [jobs EXCEPT ![j].progress = Percent(idx, workers[w].total)]
       /\ IF workers[w].left = 1
             THEN SetWorker(w, [workers[w] EXCEPT !.pc = "ret", !.left = 0,
                                                  !.total = 0, !.how = "ok"])
             ELSE SetWorker(w, [workers[w] EXCEPT !.pc = "h_chk", !.left = @ - 1])
    /\ UNCHANGED <<tag_links, tags, pins, pin_dirs, args, schema, calls>>
    /\ UNCHANGED <<queue, handlers, stop_event, pause_event, running_jobs, max_workers,
                   ui, obs>>

\* One step of a worker thread that runs VERIFY_ALL jobs on the store.
VerifyWorker(w) ==
    \/ run_loop(w) \/ run_get(w) \/ run_reg(w) \/ run_verify_all(w)
    \/ wait_if_paused_or_canceled(w) \/ handle_verify_all_file(w)
    \/ run_ret(w) \/ run_complete(w) \/ run_emit(w) \/ run_pop(w)

\* The files are registered before the first job is enqueued.
register_before_jobs(p) ==
    /\ jobs = <<>>
    /\ register_file(p, NoName)

\* The files change on the disk before the first job is enqueued.
write_before_jobs(p, c) ==
    /\ jobs = <<>>
    /\ write_file(p, c)

\* The application (one worker): files are registered and change on the disk,
\* then VERIFY_ALL jobs are enqueued and canceled.
VerifyNext ==
    \/ \E w \in 1..MaxThreads : VerifyWorker(w)
    \/ \E p \in Paths : register_before_jobs(p)
    \/ \E p \in Paths, c \in 0..MaxContent : write_before_jobs(p, c)
    \/ Enqueue({"verify_all"})
    \/ Cancel

VerifySpec == Init /\ [][VerifyNext]_vars

\* FileService.create_new_version by caller c, lines 495-506 and line 469 of
\* db.create_version: the row and the live state are read, and
\* get_next_version_number has returned in its own connection. (The calls
\* that raise ValueError are those of create_new_version above.)
create_new_version_read(c, f) ==
    /\ c \notin DOMAIN calls
    /\ f \in FileIds
    /\ get_file_state(get_file(f).file_path).exists
    /\ Len(VersionRows(f)) + Cardinality(DOMAIN calls) < MaxVersions
    /\ calls' = (c :> [file_id |-> f, file_path |-> get_file(f).file_path,
                       version_number |-> get_next_version_number(f),
                       state |-> get_file_state(get_file(f).file_path)]) @@ calls
    /\ UNCHANGED <<files, versions, disk, backups, uuids, issued, ret>>
    /\ UNCHANGED <<events, tag_links, tags, pins, pin_dirs, args, schema>>
    /\ UNCHANGED qvars

\* The rest of the call of caller c: the INSERT with the number read (db
\* lines 471-479; the table has no UNIQUE(file_id, version_number)), the
\* backup under that number and the files row, lines 514-526.
create_new_version_insert(c) ==
    /\ c \in DOMAIN calls
    /\ LET call == calls[c] IN
       /\ insert_version(call.file_id, call.version_number, call.state)
       /\ backup_file(call.file_path, call.file_id, call.version_number)
       /\ update_file_metadata(call.file_id, call.state.file_size,
                               call.state.modified_time, "OK", call.state.file_hash)
       /\ Returns("create_new_version", NoPath, call.file_id, call.version_number, "ok")
    /\ calls' = [x \in DOMAIN calls \ {c} |-> calls[x]]
    /\ UNCHANGED <<disk, uuids>>
    /\ UNCHANGED <<events, tag_links, tags, pins, pin_dirs, args, schema>>
    /\ UNCHANGED qvars

\* Callers that share one database (two instances of the application, or the
\* application and another thread) make versions of one file while it is
\* rewritten.
RaceNext ==
    \/ \E p \in OnePath : register_file(p, NoName)
    \/ \E c \in 1..MaxCallers, f \in 1..MaxFiles : create_new_version_read(c, f)
    \/ \E c \in 1..MaxCallers : create_new_version_insert(c)
    \/ \E p \in OnePath, c \in 0..MaxContent : write_file(p, c)

RaceSpec == Init /\ [][RaceNext]_vars

\* The files a scan finds for a missing a.txt with a stored hash: up to
\* MaxCandidates of them, with either name, any size and any content hash.
HashedFiles ==
    [name : Paths, size : 1..MaxContent, mtime : {1}, hash : 1..MaxContent]

HashArgs ==
    [kind : {"relink_hash"}, tracked_file : MissingFiles, use_hash : BOOLEAN,
     index : {WithPaths(found) :
                 found \in UNION {[1..len -> HashedFiles] : len \in 0..MaxCandidates}}]

\* The choice of relink_missing_files(root, use_hash) for one missing file,
\* with the number of candidates it has hashed.
call_chosen_for_hash ==
    /\ args.kind = "relink_hash"
    /\ ret.op = "none"
    /\ LET chosen == chosen_for(args.tracked_file, args.index, args.use_hash)
           checked == hash_checked(args.tracked_file, args.index, args.use_hash)
       IN
       ret' = [op |-> "chosen", path |-> NoPath, id |-> NoArg,
               n |-> IF chosen = {} THEN NoArg
                     ELSE (CHOOSE c \in chosen : TRUE).entry.path,
               val |-> IF chosen = {} THEN "None" ELSE "entry",
               new_hash |-> IF chosen = {} THEN NULL
                            ELSE (CHOOSE c \in chosen : TRUE).new_hash,
               hash_checked |-> checked]
    /\ UNCHANGED <<files, versions, disk, backups, uuids, issued, more_vars>>
    /\ UNCHANGED qvars

HashInit == MainWindowInit(DefaultWorkers) /\ TablesInit /\ args \in HashArgs

HashNext == call_chosen_for_hash

HashSpec == HashInit /\ [][HashNext]_vars

\* FileService.add_tag_to_file by caller c, line 761: db.get_or_create_tag has
\* returned the tag, found or inserted and committed in its own connection.
add_tag_get_or_create(c, f, tag_name) ==
    /\ c \notin DOMAIN calls
    /\ f \in FileIds
    /\ tags' = get_or_create_tag(tag_name)
    /\ calls' = (c :> [file_id |-> f, tag_id |-> tag_name]) @@ calls
    /\ UNCHANGED <<files, versions, disk, backups, uuids, issued, ret>>
    /\ UNCHANGED <<events, tag_links, pins, pin_dirs, args, schema>>
    /\ UNCHANGED qvars

\* The rest of the call of caller c, line 762: db.add_tag_to_file inserts the
\* link with the id of the tag returned, unless that link exists (the tables
\* are opened without PRAGMA foreign_keys, so tag_id is not checked).
add_tag_link(c) ==
    /\ c \in DOMAIN calls
    /\ tag_links' = tag_links \cup {[tag_id |-> calls[c].tag_id, file_id |-> calls[c].file_id]}
    /\ Returns("add_tag_to_file", NoPath, calls[c].file_id, NoArg, calls[c].tag_id)
    /\ calls' = [x \in DOMAIN calls \ {c} |-> calls[x]]
    /\ UNCHANGED <<files, versions, disk, backups, uuids, issued>>
    /\ UNCHANGED <<events, tags, pins, pin_dirs, args, schema>>
    /\ UNCHANGED qvars

\* Callers that share one database tag and untag its files.
TagRaceNext ==
    \/ \E p \in Paths : register_file(p, NoName)
    \/ \E c \in 1..MaxCallers, f \in 1..MaxFiles, t \in TagNames :
          add_tag_get_or_create(c, f, t)
    \/ \E c \in 1..MaxCallers : add_tag_link(c)
    \/ \E f \in 1..MaxFiles, t \in TagNames : remove_tag_from_file(f, t)
    \/ \E p \in Paths, c \in 0..1 : write_file(p, c)

TagRaceSpec == Init /\ [][TagRaceNext]_vars

\* Files that are tagged and untagged, and deleted.
TagNext ==
    \/ \E p \in Paths : register_file(p, NoName)
    \/ \E f \in 1..MaxFiles, t \in TagNames : add_tag_to_file(f, t)
    \/ \E f \in 1..MaxFiles, t \in TagNames : remove_tag_from_file(f, t)
    \/ \E f \in 1..MaxFiles : delete_file(f)
    \/ \E p \in Paths, c \in 0..MaxContent : write_file(p, c)

TagSpec == Init /\ [][TagNext]_vars

\* Files that get events and tags and are deleted.
DeleteNext ==
    \/ \E p \in Paths : register_file(p, NoName)
    \/ \E f \in 1..MaxFiles, t \in {"VERIFY_OK", "VERIFY_MODIFIED"} : create_event(f, t)
    \/ \E f \in 1..MaxFiles, t \in Tags : add_tag_to_file(f, t)
    \/ \E f \in 1..MaxFiles : delete_file(f)
    \/ \E p \in Paths, c \in 0..MaxContent : write_file(p, c)

DeleteSpec == Init /\ [][DeleteNext]_vars

\* One path, registered under any display name, versioned and renamed, its
\* versions pinned and unpinned.
PinNext ==
    \/ \E p \in OnePath, d \in DisplayNames \cup {NoName} : register_file(p, d)
    \/ \E f \in 1..MaxFiles : create_new_version(f)
    \/ \E f \in 1..MaxFiles, d \in DisplayNames : update_display_name(f, d)
    \/ \E f \in 1..MaxFiles, n \in 1..MaxVersions : pin_version(f, n)
    \/ \E f \in 1..MaxFiles, n \in 1..MaxVersions : unpin_version(f, n)
    \/ \E f \in 1..MaxFiles, n \in 1..MaxVersions : toggle_pin_version(f, n)
    \/ \E p \in OnePath, c \in 0..MaxContent : write_file(p, c)

PinSpec == Init /\ [][PinNext]_vars

\* Files that are registered, go missing, turn up under the scanned tree
\* and are relinked; they are renamed and deleted too.
RelinkNext ==
    \/ \E p \in Paths : register_file(p, NoName)
    \/ \E f \in 1..MaxFiles : verify_file(f)
    \/ \E p \in DiskPaths, c \in 0..1 : write_file(p, c)
    \/ \E use_hash \in BOOLEAN : relink_missing_files(use_hash)
    \/ \E f \in 1..MaxFiles, d \in DisplayNames : update_display_name(f, d)
    \/ \E f \in 1..MaxFiles : delete_file(f)

RelinkSpec == Init /\ [][RelinkNext]_vars

\* One path, registered under any display name, versioned, verified,
\* restored and deleted.
VersionNext ==
    \/ \E p \in OnePath, d \in DisplayNames \cup {NoName} : register_file(p, d)
    \/ \E f \in 1..MaxFiles : create_new_version(f)
    \/ \E f \in 1..MaxFiles : verify_file(f)
    \/ \E f \in 1..MaxFiles, n \in 1..MaxVersions : restore_version(f, n)
    \/ \E f \in 1..MaxFiles : delete_file(f)
    \/ \E p \in OnePath, c \in 0..MaxContent : write_file(p, c)

VersionSpec == Init /\ [][VersionNext]_vars

\* The names of the files of the backup area.
ArtifactNames ==
    (1..MaxFiles) \X [stem : {"", "a", "b", "notes"}, v : 1..MaxVersions,
                      ext : {"", ".txt"}]

\* One path, registered under any display name, versioned and renamed, with
\* the migration pass of every start of the application.
LayoutNext ==
    \/ \E p \in OnePath, d \in DisplayNames \cup {NoName} : register_file(p, d)
    \/ \E f \in 1..MaxFiles : create_new_version(f)
    \/ \E f \in 1..MaxFiles, d \in DisplayNames : update_display_name(f, d)
    \/ \E p \in OnePath, c \in 0..MaxContent : write_file(p, c)
    \/ \E k \in ArtifactNames : legacy_artifact(k)
    \/ \E k \in ArtifactNames : remove_artifact(k)
    \/ migrate_existing_files

LayoutSpec == Init /\ [][LayoutNext]_vars

\* The rows of a sequence of rows that belong to file f.
RowsOf(rows, f) == SelectSeq(rows, LAMBDA v : v.file_id = f)

Snapshot(row) ==
    [file_size |-> row.file_size, modified_time |-> row.modified_time,
     file_hash |-> row.file_hash]

LiveSnapshot(p) == [file_size |-> disk[p], modified_time |-> disk[p], file_hash |-> disk[p]]

C11_Fails ==
    /\ ret'.val \in {"FileNotFoundError", "ValueError"}
    /\ files' = files /\ versions' = versions /\ backups' = backups

C11_Succeeds(p) ==
    /\ ret'.val = "ok"
    /\ Cardinality({r \in files' : r.file_path = p}) = 1
    /\ \A r \in files' : r.file_path = p =>
          /\ r.status = "OK"
          /\ Snapshot(r) = LiveSnapshot(p)
          /\ Len(RowsOf(versions', r.id)) = 1
          /\ RowsOf(versions', r.id)[1].version_number = 1
          /\ Snapshot(RowsOf(versions', r.id)[1]) = Snapshot(r)
          /\ Cardinality(ArtifactsOf(backups', r.id)) = 1
          /\ \A k \in ArtifactsOf(backups', r.id) : k[2].v = 1 /\ backups'[k] = disk[p]

\* C11: register_file raises and creates no files row, no versions row and no
\* backup artifact when the path does not exist or is tracked already; when it
\* succeeds, the path has exactly one files row, with status OK, that file has
\* exactly one version, numbered 1, with the row's size, mtime and hash, and
\* exactly one backup artifact, of version 1, with the file's content.
C11_RegisterFile ==
    [][\A p \in Paths, d \in DisplayNames \cup {NoName} :
         register_file(p, d) =>
            IF disk[p] = Absent \/ (\E r \in files : r.file_path = p)
               THEN C11_Fails
               ELSE C11_Succeeds(p)]_vars

\* A second registration of a path has been refused while its first one stands.
C11_Witness ==
    /\ ret.op = "register_file" /\ ret.val = "ValueError"
    /\ \E r \in files :
          /\ r.file_path = ret.path /\ r.status = "OK"
          /\ Len(VersionRows(r.id)) = 1
          /\ Cardinality(ArtifactsOf(backups, r.id)) = 1

C12_Fails ==
    /\ ret'.val = "ValueError"
    /\ files' = files /\ versions' = versions /\ backups' = backups

C12_Succeeds(f, p) ==
    LET new == versions'[Len(versions')] IN
    /\ ret'.val = "ok"
    /\ Len(versions') = Len(versions) + 1
    /\ SubSeq(versions', 1, Len(versions)) = versions
    /\ new.file_id = f
    /\ Snapshot(new) = LiveSnapshot(p)
    /\ \E k \in ArtifactsOf(backups', f) \ DOMAIN backups :
          /\ k[2].v = new.version_number
          /\ backups'[k] = disk[p]
          /\ DOMAIN backups' = DOMAIN backups \cup {k}
    /\ \A k \in DOMAIN backups : backups'[k] = backups[k]
    /\ \E r \in files' :
          /\ r.id = f /\ r.status = "OK" /\ Snapshot(r) = Snapshot(new)
          /\ files' \ {r} = {x \in files : x.id # f}

\* C12: create_new_version of a tracked file whose live file is absent raises
\* and leaves the versions, the backups and the files row as they were; when
\* the live file is there, one version of the live state is added, one backup
\* artifact of it is stored, and the files row takes that version's size,
\* mtime and hash, with status OK.
C12_CreateNewVersion ==
    [][\A f \in 1..MaxFiles :
         (f \in FileIds /\ create_new_version(f)) =>
            IF disk[get_file(f).file_path] = Absent
               THEN C12_Fails
               ELSE C12_Succeeds(f, get_file(f).file_path)]_vars

\* A new version was refused for a tracked file that is missing and that has
\* two versions already.
C12_Witness ==
    /\ ret.op = "create_new_version" /\ ret.val = "ValueError"
    /\ \E r \in files :
          /\ r.id = ret.id /\ disk[r.file_path] = Absent
          /\ Len(VersionRows(r.id)) >= 2

\* The content a file was registered with: what its version 1 recorded.
RegisteredContent(f) == VersionRows(f)[1].file_hash

\* C13: for a file registered with any display name, restore_version(file, 1)
\* after the live file's bytes have changed returns True, makes the live file's
\* content its content at registration, and leaves the row with status OK.
C13_RegisterRestoreRoundTrip ==
    [][\A f \in 1..MaxFiles :
         (/\ f \in FileIds
          /\ disk[get_file(f).file_path] \notin {Absent, RegisteredContent(f)}
          /\ restore_version(f, 1))
         => /\ ret'.val = "True"
            /\ disk'[get_file(f).file_path] = RegisteredContent(f)
            /\ \E r \in files' : r.id = f /\ r.status = "OK"]_vars

\* C14: restore_version returns False and changes neither the live files, the
\* files rows nor the backup artifacts when the id is unknown or the file has
\* no backup artifact of the requested version.
C14_RestoreFails ==
    [][\A f \in 1..MaxFiles, n \in 1..MaxVersions :
         (/\ restore_version(f, n)
          /\ \/ f \notin FileIds
             \/ \A k \in ArtifactsOf(backups, f) : k[2].v # n)
         => /\ ret'.val = "False"
            /\ disk' = disk /\ files' = files /\ backups' = backups]_vars

\* A restore of a version that a tracked file does not have has been refused,
\* the file having artifacts of other versions.
C14_Witness ==
    /\ ret.op = "restore_version" /\ ret.val = "False"
    /\ ret.id \in FileIds
    /\ ArtifactsOf(backups, ret.id) # {}
    /\ \A k \in ArtifactsOf(backups, ret.id) : k[2].v # ret.n

\* The file ids that rows and backup directories refer to.
Referenced(vs, es, ls, dir) ==
    {vs[i].file_id : i \in 1..Len(vs)} \cup {es[i].file_id : i \in 1..Len(es)}
    \cup {l.file_id : l \in ls} \cup {k[1] : k \in DOMAIN dir}

\* C15: after delete_file(f) the backup directory of f is gone and no version,
\* event, tag link or files row refers to f, so that every remaining version,
\* event and tag link refers to a files row.
C15_DeleteLeavesNoReference ==
    [][\A f \in 1..MaxFiles :
         delete_file(f) =>
            /\ f \notin Referenced(versions', events', tag_links', backups')
            /\ \A r \in files' : r.id # f
            /\ Referenced(versions', events', tag_links', <<>>) \subseteq {r.id : r \in files'}]_vars

\* C16: for a version with a backup artifact, pin_version followed by
\* unpin_version leaves the version unpinned with no pinned_path and no pinned
\* artifact of that version in the pin storage, and the pin directory of the
\* file is removed exactly when no other pinned artifact remains in it.
C16_PinUnpinRoundTrip ==
    [][\A f \in 1..MaxFiles, n \in 1..MaxVersions :
         (/\ ret.op = "pin_version" /\ ret.id = f /\ ret.n = n
          /\ \E k \in ArtifactsOf(backups, f) : k[2].v = n
          /\ unpin_version(f, n))
         => /\ \A v \in get_version_by_number(f, n)' :
                  ~v.is_pinned /\ v.pinned_path = NoPinnedPath
            /\ \A k \in ArtifactsOf(pins', f) : k[2].v # n
            /\ (f \in pin_dirs') = (ArtifactsOf(pins', f) # {})]_vars

\* A version was pinned and then unpinned while another version of the file
\* stays pinned, so that the pin directory stays.
C16_Witness ==
    /\ ret.op = "unpin_version" /\ ret.val = "True"
    /\ ret.id \in pin_dirs
    /\ \E k \in ArtifactsOf(pins, ret.id) : k[2].v # ret.n
    /\ \A k \in ArtifactsOf(pins, ret.id) : k[2].v # ret.n

\* C17: in every state reached by registering, versioning, pinning, unpinning,
\* toggling and renaming, a pinned version has a pinned_path and an unpinned
\* version has none.
C17_PinnedIffPath ==
    \A i \in 1..Len(versions) :
        versions[i].is_pinned = (versions[i].pinned_path # NoPinnedPath)

\* A version is pinned, another has been unpinned, and the file was renamed
\* since the pin.
C17_Witness ==
    /\ ret.op \in {"unpin_version", "toggle_pin_version"}
    /\ \E i \in 1..Len(versions) :
          /\ versions[i].is_pinned
          /\ \E r \in files :
                /\ r.id = versions[i].file_id
                /\ \E k \in versions[i].pinned_path : k[2].stem # Stem(r.display_name)
    /\ \E i \in 1..Len(versions) : ~versions[i].is_pinned

\* The size or the mtime on disk differs from the stored one.
C18_Changed ==
    \/ args.state.file_size # args.tracked_file.file_size
    \/ args.state.modified_time # args.tracked_file.modified_time

C18_SameHash ==
    args.tracked_file.file_hash # NULL /\ args.tracked_file.file_hash = args.state.file_hash

C19_SameName ==
    {i \in 1..Len(args.index) : args.index[i].name = PathName(args.tracked_file.file_path)}

C19_SameSize ==
    {i \in C19_SameName : args.index[i].size = args.tracked_file.file_size}

C19_Eligible == IF C19_SameSize # {} THEN C19_SameSize ELSE C19_SameName

C19_Distance(i) ==
    IF args.index[i].mtime >= args.tracked_file.modified_time
       THEN args.index[i].mtime - args.tracked_file.modified_time
       ELSE args.tracked_file.modified_time - args.index[i].mtime

\* C19: without hash mode, the candidate relink chooses for a missing file has
\* the file's name, is among the candidates of the recorded size if there are
\* any and among all candidates of that name otherwise, and is the first of
\* those whose mtime is nearest to the recorded one; of two candidates of the
\* recorded size at mtime T+1 and T+100, the one at T+1 is chosen.
C19_ClosestCandidate ==
    ret.op = "chosen" =>
        /\ (ret.val = "None") = (C19_Eligible = {})
        /\ ret.val = "entry" =>
              /\ ret.n \in C19_Eligible
              /\ \A i \in C19_Eligible : C19_Distance(ret.n) <= C19_Distance(i)
              /\ \A i \in C19_Eligible : C19_Distance(i) = C19_Distance(ret.n) => ret.n <= i
        /\ \A i, j \in C19_SameSize :
              (/\ C19_SameSize = {i, j}
               /\ args.index[i].mtime = args.tracked_file.modified_time + 1
               /\ args.index[j].mtime = args.tracked_file.modified_time + 100)
              => ret.n = i

\* Three candidates of the file's name, two of them of the recorded size and
\* at equal distance from the recorded mtime, the later one first in the
\* scan's order; the first of the two is chosen.
C19_Witness ==
    /\ ret.op = "chosen" /\ ret.val = "entry"
    /\ Cardinality(C19_SameName) = 3
    /\ Cardinality(C19_SameSize) = 2
    /\ \A i, j \in C19_SameSize : C19_Distance(i) = C19_Distance(j)
    /\ \E i, j \in C19_SameSize : i < j /\ args.index[i].mtime > args.index[j].mtime
    /\ \A i \in C19_SameSize : ret.n <= i

\* The rows relink takes for missing and chooses a candidate for.
C20_Chosen(use_hash) ==
    {r \in files : IsMissing(r) /\ chosen_for(r, ScanFrom(1), use_hash) # {}}

\* C20: for every missing file for which relink_missing_files chooses a
\* candidate, the row takes the candidate's path, size and mtime, the chosen
\* hash and status OK, exactly one RELINK event of the file is appended, and
\* the scan goes on to the other missing files and returns its summary.
C20_RelinkUpdatesAndRecords ==
    [][\A use_hash \in BOOLEAN :
         relink_missing_files(use_hash) =>
            /\ ret'.val = "summary"
            /\ \A r \in C20_Chosen(use_hash) :
                  /\ \E c \in chosen_for(r, ScanFrom(1), use_hash), x \in files' :
                        /\ x.id = r.id /\ x.status = "OK"
                        /\ x.file_path = c.entry.path
                        /\ x.file_size = c.entry.size
                        /\ x.modified_time = c.entry.mtime
                        /\ x.file_hash = c.new_hash
                  /\ Len(SelectSeq(events', LAMBDA ev : ev.file_id = r.id /\ ev.event_type = "RELINK"))
                     = Len(SelectSeq(events, LAMBDA ev : ev.file_id = r.id /\ ev.event_type = "RELINK")) + 1]_vars

\* A registration of a tracked path, or a relink whose first choice is the
\* path of another row.
C21_WouldDuplicate ==
    \/ \E p \in Paths :
          /\ register_file(p, NoName)
          /\ get_file_by_path(p) # {}
          /\ disk[p] # Absent
    \/ \E use_hash \in BOOLEAN :
          /\ relink_missing_files(use_hash)
          /\ \E r \in files, x \in files :
                /\ IsMissing(r) /\ x.id # r.id
                /\ \E c \in chosen_for(r, ScanFrom(1), use_hash) : x.file_path = c.entry.path
                /\ \A y \in files :
                      (IsMissing(y) /\ y.id > r.id) => chosen_for(y, ScanFrom(1), use_hash) = {}

\* C21: in every state reached by registering, relinking, renaming and
\* deleting, no two files rows have the same file_path, and a registration or
\* a relink that would make two rows share a path fails and leaves the store
\* as it was.
C21_UniquePath ==
    /\ [](\A r1, r2 \in files : r1.file_path = r2.file_path => r1 = r2)
    /\ [][C21_WouldDuplicate
           => /\ ret'.val \in {"ValueError", "IntegrityError"}
              /\ UNCHANGED <<files, versions, backups, events, tag_links>>]_vars

\* A relink has been refused because the candidate it chose is the path of
\* another tracked file.
C21_Witness ==
    /\ ret.op = "relink_missing_files" /\ ret.val = "IntegrityError"
    /\ Cardinality(files) = 2
    /\ \E r \in files : r.file_path = "moved/a.txt"

\* The missing rows whose relocation the store refuses: the candidate chosen
\* for them is the path of another row.
C25_Refused(use_hash) ==
    {r \in files :
        /\ IsMissing(r)
        /\ \E c \in chosen_for(r, ScanFrom(1), use_hash), x \in files :
              x.id # r.id /\ x.file_path = c.entry.path}

\* C25: a failure while relinking one missing file (the chosen candidate is
\* the path of another tracked file) does not abort relink_missing_files: the
\* other missing files that have a candidate are relinked and the summary is
\* returned.
C25_RelinkGoesOn ==
    [][\A use_hash \in BOOLEAN :
         (relink_missing_files(use_hash) /\ C25_Refused(use_hash) # {})
         => /\ ret'.val = "summary"
            /\ \A r \in C20_Chosen(use_hash) \ C25_Refused(use_hash) :
                  \E c \in chosen_for(r, ScanFrom(1), use_hash), x \in files' :
                     x.id = r.id /\ x.file_path = c.entry.path]_vars

\* The tags that have a link in a tag_links table.
C22_Linked(links) == {l.tag_id : l \in links}

\* C22: after FileService.remove_tag_from_file returns, every row of the
\* tags table has a link, and every tag that has a link after the unlink is
\* still in the table.
C22_UnusedTagsCollected ==
    [][\A f \in 1..MaxFiles, t \in TagNames :
         remove_tag_from_file(f, t)
         => /\ tags' \subseteq C22_Linked(tag_links')
            /\ tags \cap C22_Linked(tag_links') \subseteq tags']_vars

\* An unlink has collected one tag and kept another one.
C22_Witness ==
    /\ ret.op = "remove_tag_from_file" /\ ret.n = 1
    /\ tags # {}
    /\ \E l \in tag_links : l.tag_id \in tags

\* The entries of a scan that the size filter rejects, and those that pass it
\* and that the date filter rejects.
C30_SizeRejected ==
    {i \in DOMAIN args.found :
        args.max_size_bytes # None /\ args.found[i].size > args.max_size_bytes}

C30_DateRejected ==
    {i \in DOMAIN args.found \ C30_SizeRejected :
        args.cutoff_ts # None /\ args.found[i].mtime < args.cutoff_ts}

\* C30: a scan completes normally also when entries fail the size or the
\* date filter, and the returned summary's size_filtered and date_filtered
\* are the numbers of entries the two filters rejected.
C30_FilteredAreCounted ==
    ret.op = "relink_missing_files"
    => /\ ret.val = "summary"
       /\ ret.size_filtered = Cardinality(C30_SizeRejected)
       /\ ret.date_filtered = Cardinality(C30_DateRejected)

\* The columns added to a table after its first CREATE TABLE statement.
C23_Added(t) == {Migrations[i][2] : i \in {j \in DOMAIN Migrations : Migrations[j][1] = t}}

\* C23: a run of _init_database raises no error and alters no row; on an
\* older schema it creates the tables that are missing and adds to files and
\* versions exactly the columns they are missing of file_hash, is_favorite,
\* is_archived, project_id, is_pinned and pinned_path; a second run leaves
\* the tables, the columns and the indexes as the first run left them.
C23_MigrationIdempotent ==
    [][_init_database
       => /\ ret'.val = "ok"
          /\ UNCHANGED <<files, versions, events, tag_links, tags>>
          /\ \A t \in TableNames :
                schema'.tables[t] =
                   (IF schema.tables[t] = {} THEN CreatedColumns[t] ELSE schema.tables[t])
                   \cup C23_Added(t)
          /\ init_database(schema').schema = schema'
          /\ init_database(schema').val = "ok"
          /\ (ret.op = "_init_database" => schema' = schema)]_vars

\* A second run on a database that was older, with a file registered between
\* the two runs.
C23_Witness ==
    /\ ret.op = "_init_database" /\ ret.val = "ok"
    /\ files # {}
    /\ schema.tables["versions"] = CreatedColumns["versions"] \cup {"is_pinned", "pinned_path"}

\* C26: once pause_current has been called, and until resume_current or
\* cancel_current is called, the pause flag is set, also if no job was running
\* at the call; a handler that comes to a checkpoint meanwhile does not pass it.
C26_PauseAlwaysSetsFlag ==
    /\ []((obs.last = "pause" /\ UiAt("idle")) => pause_event)
    /\ [][\A w \in 1..MaxThreads :
            (obs.last = "pause" /\ wait_if_paused_or_canceled(w))
            => workers'[w].pc # "h_work"]_vars

\* C27: once resume_current has returned, and until pause_current is called
\* again, the pause flag is clear and no job is PAUSED; and every enqueued
\* job eventually is COMPLETED, FAILED or CANCELED.
C27_ResumeUnblocks ==
    /\ []((obs.last = "resume" /\ UiAt("idle"))
          => (~pause_event /\ \A j \in JobIds : Status(j) # "paused"))
    /\ \A j \in 1..MaxJobs : (j \in JobIds) ~> (j \in JobIds /\ Status(j) \in Terminal)

\* The job of worker w is marked CANCELED.
C28_Canceled(w) == Status(workers[w].job) = "canceled"

\* A checkpoint of a canceled VERIFY_ALL job starts no further file and
\* leaves the rows and the events of the files verified before as they are.
C28_GateStops(w) ==
    (wait_if_paused_or_canceled(w) /\ C28_Canceled(w))
    => /\ workers'[w].pc = "ret" /\ workers'[w].how = "gate"
       /\ UNCHANGED <<files, events>>

C24_DistinctVersionNumbers ==
    \A i, k \in DOMAIN versions :
       (i # k /\ versions[i].file_id = versions[k].file_id)
       => versions[i].version_number # versions[k].version_number

\* The jobs that are waiting in the queue.
C29_InQueue == {queue[i] : i \in DOMAIN queue} \ {None}

\* C29: a step of cancel_current changes only jobs that are RUNNING or
\* PAUSED; it takes nothing from the queue, and a job that waits in the queue
\* keeps status QUEUED.
C29_CancelLeavesQueued ==
    [][Cancel
       => /\ \A j \in JobIds : jobs'[j] # jobs[j] => Status(j) \in {"running", "paused"}
          /\ queue' = queue
          /\ \A j \in C29_InQueue : Status(j) = "queued" /\ jobs'[j] = jobs[j]]_vars

\* The eligible positions (C19_Eligible) whose content hash is the stored one.
C31_Matching ==
    {i \in C19_Eligible : args.index[i].hash = args.tracked_file.file_hash}

\* C31: in hash mode, for a file with a stored hash, the candidate chosen is
\* the first eligible one whose hash is the stored hash, with that hash; the
\* candidates hashed are the eligible ones up to and including it, and all
\* of them if none matches, and then nothing is chosen (not_found) even if
\* name and size match.
C31_FirstHashMatch ==
    (ret.op = "chosen" /\ args.use_hash /\ args.tracked_file.file_hash # NULL)
    => /\ (ret.val = "None") = (C31_Matching = {})
       /\ ret.val = "None" => ret.hash_checked = Cardinality(C19_Eligible)
       /\ ret.val = "entry" =>
             /\ ret.n \in C31_Matching
             /\ \A i \in C31_Matching : ret.n <= i
             /\ ret.new_hash = args.tracked_file.file_hash
             /\ ret.hash_checked = Cardinality({i \in C19_Eligible : i <= ret.n})

\* Three candidates of the recorded size: the second and the third have the
\* stored hash, the second is chosen and the third is not hashed.
C31_Witness ==
    /\ ret.op = "chosen" /\ args.use_hash /\ args.tracked_file.file_hash # NULL
    /\ Cardinality(C19_SameSize) = 3
    /\ Cardinality(C31_Matching) = 2
    /\ ret.n = 2 /\ ret.hash_checked = 2

\* C32: in the state a run of migrate_existing_files leaves, a second run
\* returns 0, having nothing to rename and nothing to back up, whatever the
\* display names of the files.
C32_SecondRunDoesNothing ==
    [][migrate_existing_files => migrated' = 0]_vars

\* C33: get_version_backup_path finds the artifact of every version of every
\* tracked file, under whatever display name the file was registered.
C33_ArtifactFound ==
    \A f \in FileIds : \A n \in VersionNumbers(f) : get_version_backup_path(f, n) # {}

\* C34: after toggle_pin_version of an existing version, the first element of
\* the tuple returned is the is_pinned value stored for that version.
C34_ToggleReportsStoredState ==
    ret.op = "toggle_pin_version" =>
        \A v \in get_version_by_number(ret.id, ret.n) :
            (ret.val \in {"(True, path)", "(True, None)"}) = v.is_pinned

\* C35: in the state a verify_file call leaves, the file on disk being the
\* same, a second verify_file of that file finds the status that the first
\* call returned.
C35_VerifyTwiceSameStatus ==
    [][\A f \in 1..MaxFiles :
         (f \in FileIds /\ verify_file(f))
         => check_file_status(get_file(f), get_file_state(get_file(f).file_path), TRUE)'
               = ret'.val]_vars

\* C36: restore_version leaves the stored file_hash of the tracked file as
\* it is, and changes no row of table versions.
C36_RestoreKeepsHash ==
    [][\A f \in 1..MaxFiles, n \in 1..MaxVersions :
         (f \in FileIds /\ restore_version(f, n))
         => /\ \A r \in files' : r.id = f => r.file_hash = get_file(f).file_hash
            /\ versions' = versions]_vars

\* C37: the artifact that get_version_backup_path finds for a version with a
\* stored hash has the content that hash was computed from.
C37_ArtifactHasVersionHash ==
    \A f \in FileIds : \A n \in VersionNumbers(f) :
        \A k \in get_version_backup_path(f, n), v \in get_version_by_number(f, n) :
            (v.file_hash # NULL /\ backups[k] # Absent) => backups[k] = v.file_hash

\* C38: while stop has not been called, whenever no set_max_workers call is
\* under way the live threads less the sentinels in the queue are
\* _max_workers, which is at least 1; at every moment at least one thread is
\* live, and _running_jobs holds no more jobs than there are live threads.
C38_PoolKeepsSize ==
    ~stop_event =>
        /\ ui.pc \notin {"grow", "shrink"} =>
               (max_workers >= 1 /\ Cardinality(Alive) - Sentinels = max_workers)
        /\ Cardinality(Alive) >= 1
        /\ Len(running_jobs) <= Cardinality(Alive)

\* The pool of two was shrunk to one: the call has returned, its sentinel is
\* still in the queue, and both threads hold a running job.
C38_Witness ==
    /\ ~stop_event /\ UiAt("idle")
    /\ max_workers = 1 /\ Cardinality(Alive) = 2 /\ Sentinels = 1
    /\ Len(running_jobs) = 2

\* The job is an entry of _running_jobs.
C39_Registered(j) == \E i \in 1..Len(running_jobs) : running_jobs[i] = j

\* C39: job_completed is emitted at most once for a job, and with a status
\* that is COMPLETED, FAILED or CANCELED; a job whose worker has gone on is no
\* longer in _running_jobs; and a job that is RUNNING or PAUSED is in it.
C39_CompletedOnceAndTerminal ==
    /\ [](/\ \A j \in JobIds : obs.done[j] <= 1
          /\ \A j \in JobIds :
                (obs.done[j] = 1 /\ \A w \in WorkerIds : workers[w].job # j)
                   => ~C39_Registered(j)
          /\ \A j \in JobIds : Status(j) \in {"running", "paused"} => C39_Registered(j))
    /\ [][\A w \in WorkerIds :
             run_emit(w) => Status(workers[w].job) \in Terminal]_vars

\* C40: every row of tag_links has the id of a row of table tags, also when
\* calls of add_tag_to_file and remove_tag_from_file interleave.
C40_LinksHaveTags ==
    \A l \in tag_links : l.tag_id \in tags

====
